---- MODULE Spec2Model ----
(***************************************************************************)
(* TransisiDB proxy: circuit breaker (internal/proxy circuit breaker),     *)
(* backend connection pool and client sessions, as state machines.         *)
(*                                                                         *)
(* SpecCB : goroutines calling CircuitBreaker.Call concurrently.           *)
(***************************************************************************)
EXTENDS Integers, Sequences, FiniteSets, TLC

\* ---- configuration of the model (scaled-down configuration values) ------
\* the CircuitBreakerConfig of the breaker's unit tests
MaxFailures == 2
MaxRequests == 2
Timeout == 1
\* DefaultCircuitBreakerConfig, which the pool uses, scaled down
DefaultMaxFailures == 1
DefaultMaxRequests == 1
DefaultTimeout == 1
NumCallers == 3
MaxCalls == 5
MaxTime == 4
MaxPoolTime == 1

Callers == 1..NumCallers

\* ---- CircuitBreakerState ----------------------------------------------
StateClosed == "CLOSED"
StateOpen == "OPEN"
StateHalfOpen == "HALF_OPEN"

\* error values returned by Call
NoErr == "nil"
ErrCircuitBreakerOpen == "circuit breaker is open"
ErrDial == "dial error"

\* the zero time.Time: further in the past than any timeout
ZeroTime == 0 - Timeout - DefaultTimeout - 1

\* CircuitBreakerConfig as the tests build it
TestConfig ==
    [MaxFailures |-> MaxFailures, Timeout |-> Timeout, MaxRequests |-> MaxRequests]

DefaultCircuitBreakerConfig ==
    [MaxFailures |-> DefaultMaxFailures, Timeout |-> DefaultTimeout,
     MaxRequests |-> DefaultMaxRequests]

VARIABLES
    now,        \* wall clock (time.Now())
    cb,         \* the CircuitBreaker struct
    callers,    \* goroutines inside CircuitBreaker.Call: pc, err, epoch
    streak,     \* history: failures recorded in a row, no success in between
    hoEpoch,    \* history: number of Open -> HalfOpen transitions so far
    hoDone,     \* history: dials admitted in this half-open window whose fn returned nil
    hoSeq,      \* history: successes of a strictly sequential all-success half-open window, -1 otherwise
    openedFrom, \* history: state the breaker was in when it last opened
    openRej,    \* history: a call was rejected since the breaker last opened
    sess,       \* client sessions (Session.Handle goroutines): pc, conn, inTx, cmds
    clientOut,  \* packets written to each session's client socket
    conn,       \* the BackendConn objects created so far, by connectionID
    connections,\* BackendPool.connections: the buffered channel of idle connections
    chanClosed, \* close(bp.connections) has run
    closed,     \* BackendPool.closed
    connCounter,\* BackendPool.connCounter
    reaper,     \* cleanupWorker goroutine: pc and healthyConns
    closer,     \* the goroutine in Server.Stop / BackendPool.Close
    crashed,    \* a goroutine panicked: the process is gone
    relInTx,    \* history: connections whose in-transaction flag was set when Release looked at it
    rw,         \* the SQL rewriter at work on one COM_QUERY: configuration, statement, result
    store,      \* the configuration in Redis, its reload channel, and the proxy's sessions using Server.config
    ps,         \* one session at packet level: sockets, position in Handle, packets relayed
    bf          \* the backfill worker: its table, its goroutines, its progress

cbHist == <<streak, hoEpoch, hoDone, hoSeq, openedFrom, openRej>>
poolVars == <<sess, clientOut, conn, connections, chanClosed, closed, connCounter,
              reaper, closer, crashed, relInTx>>
\* what the breaker and the pool leave alone
auxVars == <<rw, store, ps, bf>>
vars == <<now, cb, callers, streak, hoEpoch, hoDone, hoSeq, openedFrom, openRej,
          sess, clientOut, conn, connections, chanClosed, closed, connCounter,
          reaper, closer, crashed, relInTx, rw, store, ps, bf>>

\* no query is being rewritten
IdleRewriter == [pc |-> "idle"]
\* no configuration store is in use
IdleStore == [pc |-> "idle"]
\* no packet-level session is running
IdlePacketSession == [pc |-> "idle"]
\* no backfill worker exists
IdleWorker == [pc |-> "idle"]

\* ---- CircuitBreaker ------------------------------------------------------
NewCircuitBreaker(config, t) ==
    [config |-> config, state |-> StateClosed, failures |-> 0, lastFailureTime |-> ZeroTime,
     lastStateChange |-> t, halfOpenRequests |-> 0,
     totalRequests |-> 0, totalSuccesses |-> 0, totalFailures |-> 0,
     totalRejections |-> 0]

setState(b, s, t) ==
    IF b.state # s THEN [b EXCEPT !.state = s, !.lastStateChange = t] ELSE b

\* beforeRequest that counts a request only once it is admitted
beforeRequest_countAdmitted(b, t) ==
    CASE b.state = StateClosed -> [cb |-> [b EXCEPT !.totalRequests = @ + 1], err |-> NoErr]
      [] b.state = StateOpen ->
            IF t - b.lastFailureTime > b.config.Timeout
            THEN [cb |-> [setState(b, StateHalfOpen, t) EXCEPT !.halfOpenRequests = 0,
                                                               !.totalRequests = @ + 1],
                  err |-> NoErr]
            ELSE [cb |-> [b EXCEPT !.totalRejections = @ + 1],
                  err |-> ErrCircuitBreakerOpen]
      [] b.state = StateHalfOpen ->
            IF b.halfOpenRequests >= b.config.MaxRequests
            THEN [cb |-> [b EXCEPT !.totalRejections = @ + 1],
                  err |-> ErrCircuitBreakerOpen]
            ELSE [cb |-> [b EXCEPT !.halfOpenRequests = @ + 1, !.totalRequests = @ + 1],
                  err |-> NoErr]

\* beforeRequest: the breaker after the call and the error returned
beforeRequest(b, t) ==
    LET b1 == [b EXCEPT !.totalRequests = @ + 1] IN
    CASE b1.state = StateClosed -> [cb |-> b1, err |-> NoErr]
      [] b1.state = StateOpen ->
            IF t - b1.lastFailureTime > b1.config.Timeout
            THEN [cb |-> [setState(b1, StateHalfOpen, t) EXCEPT !.halfOpenRequests = 0],
                  err |-> NoErr]
            ELSE [cb |-> [b1 EXCEPT !.totalRejections = @ + 1],
                  err |-> ErrCircuitBreakerOpen]
      [] b1.state = StateHalfOpen ->
            IF b1.halfOpenRequests >= b1.config.MaxRequests
            THEN [cb |-> [b1 EXCEPT !.totalRejections = @ + 1],
                  err |-> ErrCircuitBreakerOpen]
            ELSE [cb |-> [b1 EXCEPT !.halfOpenRequests = @ + 1], err |-> NoErr]

onSuccess(b, t) ==
    LET b1 == [b EXCEPT !.totalSuccesses = @ + 1] IN
    CASE b1.state = StateClosed ->
            IF b1.failures > 0 THEN [b1 EXCEPT !.failures = 0] ELSE b1
      [] b1.state = StateHalfOpen ->
            IF b1.halfOpenRequests >= b1.config.MaxRequests
            THEN [setState(b1, StateClosed, t) EXCEPT !.failures = 0,
                                                      !.halfOpenRequests = 0]
            ELSE b1
      [] OTHER -> b1

\* onFailure with the threshold test written > instead of >=
onFailure_gt(b, t) ==
    LET b1 == [b EXCEPT !.totalFailures = @ + 1, !.failures = @ + 1,
                        !.lastFailureTime = t] IN
    CASE b1.state = StateClosed ->
            IF b1.failures > b1.config.MaxFailures THEN setState(b1, StateOpen, t) ELSE b1
      [] b1.state = StateHalfOpen -> setState(b1, StateOpen, t)
      [] OTHER -> b1

\* onFailure without the half-open case
onFailure_noHalfOpen(b, t) ==
    LET b1 == [b EXCEPT !.totalFailures = @ + 1, !.failures = @ + 1,
                        !.lastFailureTime = t] IN
    CASE b1.state = StateClosed ->
            IF b1.failures >= b1.config.MaxFailures THEN setState(b1, StateOpen, t) ELSE b1
      [] OTHER -> b1

onFailure(b, t) ==
    LET b1 == [b EXCEPT !.totalFailures = @ + 1, !.failures = @ + 1,
                        !.lastFailureTime = t] IN
    CASE b1.state = StateClosed ->
            IF b1.failures >= b1.config.MaxFailures THEN setState(b1, StateOpen, t) ELSE b1
      [] b1.state = StateHalfOpen -> setState(b1, StateOpen, t)
      [] OTHER -> b1

afterRequest(b, err, t) ==
    IF err # NoErr THEN onFailure(b, t) ELSE onSuccess(b, t)

\* ---- goroutines in CircuitBreaker.Call ---------------------------------
InFlight(c) == callers[c].pc \in {"fn", "after"}

\* Call, first step: beforeRequest under the breaker's lock
CallBefore(c) ==
    /\ callers[c].pc = "idle"
    /\ cb.totalRequests < MaxCalls
    /\ LET r == beforeRequest(cb, now)
           entered == cb.state = StateOpen /\ r.cb.state = StateHalfOpen
           alone == \A d \in Callers : ~InFlight(d)
           ep == IF entered THEN hoEpoch + 1 ELSE hoEpoch
       IN /\ cb' = r.cb
          /\ hoEpoch' = ep
          /\ hoDone' = IF entered THEN 0 ELSE hoDone
          /\ hoSeq' = IF r.err # NoErr THEN hoSeq
                      ELSE IF entered THEN (IF alone THEN 0 ELSE -1)
                      ELSE IF cb.state = StateHalfOpen
                           THEN (IF alone THEN hoSeq ELSE -1)
                      ELSE hoSeq
          /\ callers' = [callers EXCEPT ![c] =
                 IF r.err = NoErr
                 THEN [pc |-> "fn", err |-> NoErr,
                       epoch |-> IF r.cb.state = StateHalfOpen THEN ep ELSE 0]
                 ELSE [pc |-> "idle", err |-> r.err, epoch |-> 0]]
          /\ openRej' = IF cb.state = StateOpen
                         THEN (r.cb.state = StateOpen /\ (openRej \/ r.err # NoErr))
                         ELSE openRej
    /\ UNCHANGED <<now, streak, openedFrom, poolVars>>
    /\ UNCHANGED auxVars

\* Call, second step: fn() (the dial) returns
FnReturn(c) ==
    /\ callers[c].pc = "fn"
    /\ \E e \in {NoErr, ErrDial} :
          /\ callers' = [callers EXCEPT ![c].pc = "after", ![c].err = e]
          /\ hoDone' = IF e = NoErr /\ callers[c].epoch = hoEpoch /\ hoEpoch > 0
                       THEN hoDone + 1 ELSE hoDone
    /\ UNCHANGED <<now, cb, streak, hoEpoch, hoSeq, openedFrom, openRej, poolVars>>
    /\ UNCHANGED auxVars

\* Call, third step: afterRequest under the breaker's lock, then return err
CallAfter(c) ==
    /\ callers[c].pc = "after"
    /\ LET e == callers[c].err IN
       /\ cb' = afterRequest(cb, e, now)
       /\ streak' = IF e = NoErr \/ (cb.state # StateClosed /\ cb'.state = StateClosed)
                    THEN 0 ELSE streak + 1
       /\ hoSeq' = IF e # NoErr THEN -1
                   ELSE IF callers[c].epoch = hoEpoch /\ hoEpoch > 0 /\ hoSeq >= 0
                        THEN hoSeq + 1
                   ELSE hoSeq
       /\ openedFrom' = IF cb.state # StateOpen /\ cb'.state = StateOpen
                        THEN cb.state ELSE openedFrom
       /\ openRej' = IF cb.state # StateOpen /\ cb'.state = StateOpen
                     THEN FALSE ELSE openRej
    /\ callers' = [callers EXCEPT ![c].pc = "idle"]
    /\ UNCHANGED <<now, hoEpoch, hoDone, poolVars>>
    /\ UNCHANGED auxVars

\* CircuitBreaker.Reset: the breaker is put back to Closed by hand; the
\* counters of requests, successes, failures and rejections stay
Reset(b, t) ==
    [b EXCEPT !.state = StateClosed, !.failures = 0, !.halfOpenRequests = 0,
              !.lastStateChange = t]

\* a goroutine calls Reset. The count of failures in a row starts anew, and a
\* half-open window that was under way is over.
ResetCall ==
    /\ cb' = Reset(cb, now)
    /\ streak' = 0
    /\ hoSeq' = -1
    /\ UNCHANGED <<now, callers, hoEpoch, hoDone, openedFrom, openRej, poolVars>>
    /\ UNCHANGED auxVars

\* time passes
Tick ==
    /\ now < MaxTime
    /\ now' = now + 1
    /\ UNCHANGED <<cb, callers, cbHist, poolVars>>
    /\ UNCHANGED auxVars


\* ======================= backend pool and sessions ========================
NumSessions == 2
MaxConnectionsPerHost == 2
PoolSize == 1
MaxCmds == 1
MaxAuthRounds == 1
MaxIdleTime == 0
MaxAge == 1

Sessions == 1..NumSessions
ConnIds == 1..NumSessions
NoConn == 0

ErrPoolClosed == "pool is closed"
ErrBackendUnavailable == "backend unavailable (circuit breaker open)"
ErrConnect == "failed to connect to backend"

\* Query texts are sequences of characters, so that trimming and upper-casing
\* are computed on them. A character outside ASCII (and the vertical tab) is
\* written by its code point.
LowerCase == <<"a", "b", "c", "d", "e", "f", "g", "h", "i", "j", "k", "l", "m",
               "n", "o", "p", "q", "r", "s", "t", "u", "v", "w", "x", "y", "z">>
UpperCase == <<"A", "B", "C", "D", "E", "F", "G", "H", "I", "J", "K", "L", "M",
               "N", "O", "P", "Q", "R", "S", "T", "U", "V", "W", "X", "Y", "Z">>
\* unicode.IsSpace: the characters strings.TrimSpace removes
WhiteSpace ==
    {" ", "\t", "\n", "\r", "\f", "U+000B", "U+0085", "U+00A0", "U+1680",
     "U+2000", "U+2001", "U+2002", "U+2003", "U+2004", "U+2005", "U+2006",
     "U+2007", "U+2008", "U+2009", "U+200A", "U+2028", "U+2029", "U+202F",
     "U+205F", "U+3000"}

\* unicode.ToUpper: a..z, and of the letters outside ASCII the two whose upper
\* case is an ASCII letter (dotless i, long s) and e acute; the Kelvin sign
\* U+212A is an upper-case letter already and stays
UpperOf(ch) ==
    IF \E i \in 1..26 : LowerCase[i] = ch
    THEN UpperCase[CHOOSE i \in 1..26 : LowerCase[i] = ch]
    ELSE IF ch = "U+0131" THEN "I"
    ELSE IF ch = "U+017F" THEN "S"
    ELSE IF ch = "U+00E9" THEN "U+00C9"
    ELSE ch
LowerOf(ch) ==
    IF \E i \in 1..26 : UpperCase[i] = ch
    THEN LowerCase[CHOOSE i \in 1..26 : UpperCase[i] = ch]
    ELSE ch

\* strings.ToUpper
ToUpper(q) == [i \in 1..Len(q) |-> UpperOf(q[i])]

RECURSIVE TrimLeft(_)
TrimLeft(q) ==
    IF q # <<>> /\ Head(q) \in WhiteSpace THEN TrimLeft(Tail(q)) ELSE q
RECURSIVE TrimRight(_)
TrimRight(q) ==
    IF q # <<>> /\ q[Len(q)] \in WhiteSpace
    THEN TrimRight(SubSeq(q, 1, Len(q) - 1)) ELSE q

\* strings.TrimSpace
TrimSpace(q) == TrimRight(TrimLeft(q))

TextBegin == <<"B", "E", "G", "I", "N">>
TextStartTransaction ==
    <<"S", "T", "A", "R", "T", " ", "T", "R", "A", "N", "S", "A", "C", "T", "I", "O", "N">>
TextCommit == <<"C", "O", "M", "M", "I", "T">>
TextRollback == <<"R", "O", "L", "L", "B", "A", "C", "K">>
TextSelect == <<"S", "E", "L", "E", "C", "T", " ", "1">>
Lowered(q) == [i \in 1..Len(q) |-> LowerOf(q[i])]
\* the text with every i written as the dotless i
DotlessI(q) == [i \in 1..Len(q) |-> IF q[i] = "i" THEN "U+0131" ELSE q[i]]
\* the text with every s written as the long s
LongS(q) == [i \in 1..Len(q) |-> IF q[i] = "s" THEN "U+017F" ELSE q[i]]

\* the query texts the clients of the pool send
QueryTexts ==
    {TextBegin, Lowered(TextBegin), <<" ">> \o TextBegin \o <<" ">>,
     TextStartTransaction,
     <<"S", "t", "a", "r", "t", " ", "T", "r", "a", "n", "s", "a", "c", "t", "i", "o", "n">>,
     TextCommit, Lowered(TextCommit), TextRollback, TextRollback \o <<"\n">>,
     TextBegin \o <<";">>, TextSelect,
     <<"\f">> \o TextBegin, DotlessI(Lowered(TextCommit))}

Range(q) == {q[i] : i \in 1..Len(q)}

\* NewBackendConn
NewBackendConn(t) ==
    [status |-> "open", inTransaction |-> FALSE, createdAt |-> t, lastUsedAt |-> t]
NotCreated ==
    [status |-> "none", inTransaction |-> FALSE, createdAt |-> 0, lastUsedAt |-> 0]

\* BackendConn.Close: the socket is closed; the fields of the dead object are
\* not read again and are cleared
CloseConn(cn, c) ==
    [cn EXCEPT ![c] = [status |-> "closed", inTransaction |-> FALSE,
                       createdAt |-> 0, lastUsedAt |-> 0]]

\* BackendConn.IsHealthy: the possible answers; a socket the proxy closed or
\* the backend dropped fails the read at once
IsHealthy(cn, c) == IF cn[c].status = "open" THEN BOOLEAN ELSE {FALSE}

\* BackendConn.Reset
ResetConn(cn, c, t) ==
    [cn EXCEPT ![c].inTransaction = FALSE, ![c].lastUsedAt = t]

\* Release sends every connection to the idle queue, in a transaction or not
releaseToPool_noTxCheck(cn, c) == TRUE

\* Release: may this connection go back to the idle queue
releaseToPool(cn, c) == ~cn[c].inTransaction

\* cleanupStaleConnections: is this idle connection evicted
reaperEvicts(cn, c, t, healthy) ==
    \/ t - cn[c].lastUsedAt > MaxIdleTime
    \/ t - cn[c].createdAt > MaxAge
    \/ ~healthy

\* the receive of Acquire leaves the connection in the channel
chanRecvRest_peek(q) == q

\* what a receive leaves in the channel
chanRecvRest(q) == Tail(q)

\* handleQuery: the transaction flag after a query text
txAfter(inTx, query) ==
    LET upperQuery == ToUpper(TrimSpace(query)) IN
    IF upperQuery = TextBegin \/ upperQuery = TextStartTransaction THEN TRUE
    ELSE IF upperQuery = TextCommit \/ upperQuery = TextRollback THEN FALSE
    ELSE inTx

Leased == {s \in Sessions : sess[s].conn # NoConn}

\* a client that has not connected yet
IdleSession == [pc |-> "idle", conn |-> NoConn, inTx |-> FALSE, cmds |-> 0]

\* a session whose Handle has returned and whose client socket is closed
DoneSession == [IdleSession EXCEPT !.pc = "done"]

\* a session's Handle returns err before a backend connection was acquired; the
\* deferred clientConn.Close() runs and handleConnection frees its semaphore
\* slot. Nothing is written to the client on this path.
Fail(s, e) ==
    sess' = [sess EXCEPT ![s] = DoneSession]

\* Handle returns after releaseBackendConnection: the deferred
\* clientConn.Close() runs and handleConnection frees its semaphore slot
Return(s) ==
    /\ sess' = [sess EXCEPT ![s] = DoneSession]
    /\ UNCHANGED clientOut

\* Server.handleConnection: a client connects and gets a semaphore slot
Accept(s) ==
    /\ ~crashed
    /\ sess[s].pc = "idle"
    /\ closer = "idle"
    /\ Cardinality({x \in Sessions : sess[x].pc \notin {"idle", "done"}})
           < MaxConnectionsPerHost
    /\ sess' = [sess EXCEPT ![s] = [IdleSession EXCEPT !.pc = "acquire"]]
    /\ clientOut' = [clientOut EXCEPT ![s] = <<>>]
    /\ UNCHANGED <<now, cb, callers, cbHist, conn, connections, chanClosed, closed,
                   connCounter, reaper, closer, crashed, relInTx>>
    /\ UNCHANGED auxVars

\* Acquire: the closed check under the pool lock
AcquireCheckClosed(s) ==
    /\ ~crashed
    /\ sess[s].pc = "acquire"
    /\ IF closed THEN Fail(s, ErrPoolClosed)
       ELSE sess' = [sess EXCEPT ![s].pc = "select"]
    /\ UNCHANGED <<now, cb, callers, cbHist, clientOut, conn, connections, chanClosed,
                   closed, connCounter, reaper, closer, crashed, relInTx>>
    /\ UNCHANGED auxVars

\* Acquire: the select on the idle channel, and the health check of what it got
AcquireSelect(s) ==
    /\ ~crashed
    /\ sess[s].pc = "select"
    /\ IF connections # <<>>
       THEN LET c == Head(connections) IN
            /\ connections' = chanRecvRest(connections)
            /\ \E healthy \in IsHealthy(conn, c) :
                  IF healthy
                  THEN /\ conn' = [conn EXCEPT ![c].lastUsedAt = now]
                       /\ sess' = [sess EXCEPT ![s].pc = "handshake", ![s].conn = c]
                  ELSE /\ conn' = CloseConn(conn, c)
                       /\ sess' = [sess EXCEPT ![s].pc = "cc_before"]
            /\ UNCHANGED crashed
       ELSE IF chanClosed
       THEN \* receive on the closed channel yields nil; nil.IsHealthy() panics
            /\ crashed' = TRUE
            /\ UNCHANGED <<sess, conn, connections>>
       ELSE /\ sess' = [sess EXCEPT ![s].pc = "cc_before"]
            /\ UNCHANGED <<conn, connections, crashed>>
    /\ UNCHANGED <<now, cb, callers, cbHist, clientOut, chanClosed, closed,
                   connCounter, reaper, closer, relInTx>>
    /\ UNCHANGED auxVars

\* createConnection: circuitBreaker.Call, beforeRequest
CreateBefore(s) ==
    /\ ~crashed
    /\ sess[s].pc = "cc_before"
    /\ LET r == beforeRequest(cb, now) IN
       /\ cb' = r.cb
       /\ IF r.err = NoErr THEN sess' = [sess EXCEPT ![s].pc = "cc_dial"]
          ELSE Fail(s, ErrBackendUnavailable)
    /\ UNCHANGED <<now, callers, cbHist, clientOut, conn, connections, chanClosed,
                   closed, connCounter, reaper, closer, crashed, relInTx>>
    /\ UNCHANGED auxVars

\* createConnection: the dial returns and afterRequest records its result
\* under the breaker's lock
CreateDial(s) ==
    /\ ~crashed
    /\ sess[s].pc = "cc_dial"
    /\ \E e \in {NoErr, ErrDial} :
          /\ cb' = afterRequest(cb, e, now)
          /\ IF e # NoErr
             THEN Fail(s, ErrConnect)
             ELSE sess' = [sess EXCEPT ![s].pc = "cc_count"]
    /\ UNCHANGED <<now, callers, cbHist, clientOut, conn, connections, chanClosed,
                   closed, connCounter, reaper, closer, crashed, relInTx>>
    /\ UNCHANGED auxVars

\* createConnection after a successful dial: the connection gets its id under
\* the pool's lock, a critical section of its own, and NewBackendConn wraps
\* the socket
CreateCount(s) ==
    /\ ~crashed
    /\ sess[s].pc = "cc_count"
    /\ connCounter' = connCounter + 1
    /\ conn' = [conn EXCEPT ![connCounter + 1] = NewBackendConn(now)]
    /\ sess' = [sess EXCEPT ![s].pc = "handshake", ![s].conn = connCounter + 1]
    /\ UNCHANGED <<now, cb, callers, cbHist, clientOut, connections, chanClosed,
                   closed, reaper, closer, crashed, relInTx>>
    /\ UNCHANGED auxVars

\* Handle, step 2 and 3: relay the backend handshake and the client's response
Handshake(s) ==
    /\ ~crashed
    /\ sess[s].pc = "handshake"
    /\ \/ /\ clientOut' = [clientOut EXCEPT ![s] = Append(@, "HANDSHAKE")]
          /\ \/ sess' = [sess EXCEPT ![s].pc = "auth"]
             \/ sess' = [sess EXCEPT ![s].pc = "release"]
       \/ /\ sess' = [sess EXCEPT ![s].pc = "release"]
          /\ UNCHANGED clientOut
    /\ UNCHANGED <<now, cb, callers, cbHist, conn, connections, chanClosed, closed,
                   connCounter, reaper, closer, crashed, relInTx>>
    /\ UNCHANGED auxVars

\* Handle, step 4: one round of the auth loop
AuthStep(s) ==
    /\ ~crashed
    /\ sess[s].pc = "auth"
    /\ \/ /\ clientOut' = [clientOut EXCEPT ![s] = Append(@, "AUTH_OK")]
          /\ sess' = [sess EXCEPT ![s].pc = "ready"]
       \/ /\ clientOut' = [clientOut EXCEPT ![s] = Append(@, "AUTH_ERR")]
          /\ sess' = [sess EXCEPT ![s].pc = "release"]
       \/ /\ Cardinality({i \in 1..Len(clientOut[s]) : clientOut[s][i] = "AUTH_MORE"})
                < MaxAuthRounds
          /\ clientOut' = [clientOut EXCEPT ![s] = Append(@, "AUTH_MORE")]
          /\ \/ UNCHANGED sess
             \/ sess' = [sess EXCEPT ![s].pc = "release"]
       \/ /\ sess' = [sess EXCEPT ![s].pc = "release"]
          /\ UNCHANGED clientOut
    /\ UNCHANGED <<now, cb, callers, cbHist, conn, connections, chanClosed, closed,
                   connCounter, reaper, closer, crashed, relInTx>>
    /\ UNCHANGED auxVars

\* handleCommands: COM_QUERY, through handleQuery and forwardCommand
Query(s) ==
    /\ ~crashed
    /\ sess[s].pc = "ready"
    /\ sess[s].cmds < MaxCmds
    /\ \E q \in QueryTexts :
       LET tx == txAfter(sess[s].inTx, q) IN
       /\ conn' = [conn EXCEPT ![sess[s].conn].inTransaction =
                                   txAfter(@, q)]
       /\ \/ /\ sess' = [sess EXCEPT ![s].inTx = tx, ![s].cmds = @ + 1]
             /\ clientOut' = [clientOut EXCEPT ![s] = Append(@, "RESPONSE")]
          \/ /\ sess' = [sess EXCEPT ![s].inTx = tx, ![s].pc = "release"]
             /\ UNCHANGED clientOut
    /\ UNCHANGED <<now, cb, callers, cbHist, connections, chanClosed, closed,
                   connCounter, reaper, closer, crashed, relInTx>>
    /\ UNCHANGED auxVars

\* handleCommands: COM_QUIT, or a failed read of the next command
Quit(s) ==
    /\ ~crashed
    /\ sess[s].pc = "ready"
    /\ sess' = [sess EXCEPT ![s].pc = "release"]
    /\ UNCHANGED <<now, cb, callers, cbHist, clientOut, conn, connections, chanClosed,
                   closed, connCounter, reaper, closer, crashed, relInTx>>
    /\ UNCHANGED auxVars

\* a holder of a leased connection that is not a session: what the pool lets
\* any caller do between Acquire and Release is BackendConn.SetInTransaction,
\* then it calls Release
UseConn(s) ==
    /\ ~crashed
    /\ sess[s].pc = "handshake"
    /\ \E inTx \in BOOLEAN :
          conn' = [conn EXCEPT ![sess[s].conn].inTransaction = inTx]
    /\ sess' = [sess EXCEPT ![s].pc = "release"]
    /\ UNCHANGED <<now, cb, callers, cbHist, clientOut, connections, chanClosed,
                   closed, connCounter, reaper, closer, crashed, relInTx>>
    /\ UNCHANGED auxVars

\* releaseBackendConnection and Release up to the closed check
ReleaseCheckClosed(s) ==
    /\ ~crashed
    /\ sess[s].pc = "release"
    /\ LET c == sess[s].conn
           cn == [conn EXCEPT ![c].lastUsedAt = now] IN
       IF closed
       THEN /\ conn' = CloseConn(cn, c)
            /\ Return(s)
            /\ relInTx' = IF conn[c].inTransaction THEN relInTx \cup {c} ELSE relInTx
       ELSE /\ conn' = cn
            /\ sess' = [sess EXCEPT ![s].pc = "rel_send"]
            /\ UNCHANGED <<relInTx, clientOut>>
    /\ UNCHANGED <<now, cb, callers, cbHist, connections, chanClosed,
                   closed, connCounter, reaper, closer, crashed>>
    /\ UNCHANGED auxVars

\* Release: transaction check, Reset, and the non-blocking send to the channel
ReleaseReturn(s) ==
    /\ ~crashed
    /\ sess[s].pc = "rel_send"
    /\ LET c == sess[s].conn IN
       /\ relInTx' = IF conn[c].inTransaction THEN relInTx \cup {c} ELSE relInTx
       /\ IF ~releaseToPool(conn, c)
          THEN /\ conn' = CloseConn(conn, c)
               /\ Return(s)
               /\ UNCHANGED <<connections, crashed>>
          ELSE IF chanClosed
          THEN \* send on a closed channel panics
               /\ conn' = ResetConn(conn, c, now)
               /\ crashed' = TRUE
               /\ UNCHANGED <<sess, clientOut, connections>>
          ELSE IF Len(connections) < PoolSize
          THEN /\ conn' = ResetConn(conn, c, now)
               /\ connections' = Append(connections, c)
               /\ Return(s)
               /\ UNCHANGED crashed
          ELSE /\ conn' = CloseConn(ResetConn(conn, c, now), c)
               /\ Return(s)
               /\ UNCHANGED <<connections, crashed>>
    /\ UNCHANGED <<now, cb, callers, cbHist, chanClosed, closed,
                   connCounter, reaper, closer>>
    /\ UNCHANGED auxVars

\* cleanupWorker: the period of its ticker and the delay of the time.After
\* that guards its check of bp.closed, in seconds
TickerPeriod == 30
ClosedCheckDelay == 60

\* cleanupWorker's select: the case that becomes ready first. The ticker runs
\* on from its last tick; time.After is armed anew on every round of the loop,
\* so it fires only if a whole ClosedCheckDelay passes without a tick.
selectWakes == IF ClosedCheckDelay < TickerPeriod THEN "after" ELSE "ticker"

\* cleanupWorker: the ticker fires, cleanupStaleConnections starts. The clock
\* of the pool counts ticker periods (30 s, which is also the breaker's default
\* timeout). On the time.After case the worker returns when the pool is closed.
ReaperTick ==
    /\ ~crashed
    /\ reaper.pc = "wait"
    /\ now < MaxPoolTime
    /\ now' = now + 1
    /\ reaper' = IF selectWakes = "ticker"
                 THEN [pc |-> "drain", healthyConns |-> <<>>]
                 ELSE IF closed THEN [reaper EXCEPT !.pc = "exited"] ELSE reaper
    /\ UNCHANGED <<cb, callers, cbHist, sess, clientOut, conn, connections,
                   chanClosed, closed, connCounter, closer, crashed, relInTx>>
    /\ UNCHANGED auxVars

\* cleanupStaleConnections: one round of the drain loop
ReaperDrain ==
    /\ ~crashed
    /\ reaper.pc = "drain"
    /\ IF connections # <<>>
       THEN LET c == Head(connections) IN
            /\ connections' = Tail(connections)
            /\ \E healthy \in IsHealthy(conn, c) :
                  IF reaperEvicts(conn, c, now, healthy)
                  THEN /\ conn' = CloseConn(conn, c)
                       /\ UNCHANGED reaper
                  ELSE /\ reaper' = [reaper EXCEPT !.healthyConns = Append(@, c)]
                       /\ UNCHANGED conn
       ELSE IF chanClosed
       THEN \* receive on the closed channel yields nil: the loop continues
            UNCHANGED <<reaper, conn, connections>>
       ELSE /\ reaper' = [reaper EXCEPT !.pc = "refill"]
            /\ UNCHANGED <<conn, connections>>
    /\ UNCHANGED <<now, cb, callers, cbHist, sess, clientOut, chanClosed, closed,
                   connCounter, closer, crashed, relInTx>>
    /\ UNCHANGED auxVars

\* cleanupStaleConnections: one round of the loop that returns healthy connections
ReaperRefill ==
    /\ ~crashed
    /\ reaper.pc = "refill"
    /\ IF reaper.healthyConns = <<>>
       THEN /\ reaper' = [reaper EXCEPT !.pc = "wait"]
            /\ UNCHANGED <<conn, connections, crashed>>
       ELSE LET c == Head(reaper.healthyConns) IN
            IF chanClosed
            THEN /\ crashed' = TRUE
                 /\ UNCHANGED <<reaper, conn, connections>>
            ELSE /\ reaper' = [reaper EXCEPT !.healthyConns = Tail(@)]
                 /\ IF Len(connections) < PoolSize
                    THEN /\ connections' = Append(connections, c)
                         /\ UNCHANGED conn
                    ELSE /\ conn' = CloseConn(conn, c)
                         /\ UNCHANGED connections
                 /\ UNCHANGED crashed
    /\ UNCHANGED <<now, cb, callers, cbHist, sess, clientOut, chanClosed, closed,
                   connCounter, closer, relInTx>>
    /\ UNCHANGED auxVars

\* BackendPool.Close: mark the pool closed
CloseStart ==
    /\ ~crashed
    /\ closer = "idle"
    /\ closed' = TRUE
    /\ closer' = "close_chan"
    /\ UNCHANGED <<now, cb, callers, cbHist, sess, clientOut, conn, connections,
                   chanClosed, connCounter, reaper, crashed, relInTx>>
    /\ UNCHANGED auxVars

\* BackendPool.Close: close(bp.connections)
CloseChan ==
    /\ ~crashed
    /\ closer = "close_chan"
    /\ chanClosed' = TRUE
    /\ closer' = "drain"
    /\ UNCHANGED <<now, cb, callers, cbHist, sess, clientOut, conn, connections,
                   closed, connCounter, reaper, crashed, relInTx>>
    /\ UNCHANGED auxVars

\* BackendPool.Close: one round of the range loop, then wg.Wait(), which
\* returns once cleanupWorker has returned (its deferred wg.Done)
CloseDrain ==
    /\ ~crashed
    /\ closer \in {"drain", "wait"}
    /\ IF closer = "wait"
       THEN /\ reaper.pc = "exited"
            /\ closer' = "done"
            /\ UNCHANGED <<conn, connections>>
       ELSE IF connections # <<>>
       THEN /\ conn' = CloseConn(conn, Head(connections))
            /\ connections' = Tail(connections)
            /\ UNCHANGED closer
       ELSE /\ closer' = "wait"
            /\ UNCHANGED <<conn, connections>>
    /\ UNCHANGED <<now, cb, callers, cbHist, sess, clientOut, chanClosed, closed,
                   connCounter, reaper, crashed, relInTx>>
    /\ UNCHANGED auxVars

\* state shared by both constructions
InitBase ==
    /\ now = 0
    /\ callers = [c \in Callers |-> [pc |-> "idle", err |-> NoErr, epoch |-> 0]]
    /\ streak = 0
    /\ hoEpoch = 0
    /\ hoDone = 0
    /\ hoSeq = -1
    /\ openedFrom = StateClosed
    /\ openRej = FALSE
    /\ sess = [s \in Sessions |-> IdleSession]
    /\ clientOut = [s \in Sessions |-> <<>>]
    /\ conn = [c \in ConnIds |-> NotCreated]
    /\ connections = <<>>
    /\ chanClosed = FALSE
    /\ closed = FALSE
    /\ connCounter = 0
    /\ reaper = [pc |-> "wait", healthyConns |-> <<>>]
    /\ closer = "idle"
    /\ crashed = FALSE
    /\ relInTx = {}

InitRest ==
    /\ InitBase
    /\ rw = IdleRewriter
    /\ store = IdleStore
    /\ ps = IdlePacketSession
    /\ bf = IdleWorker

\* NewServer: NewBackendPool with the default breaker configuration
Init ==
    /\ cb = NewCircuitBreaker(DefaultCircuitBreakerConfig, 0)
    /\ InitRest

\* a breaker built by NewCircuitBreaker(config) as in the unit tests
InitCB ==
    /\ cb = NewCircuitBreaker(TestConfig, 0)
    /\ InitRest

NextCB ==
    \/ \E c \in Callers : CallBefore(c)
    \/ \E c \in Callers : FnReturn(c)
    \/ \E c \in Callers : CallAfter(c)
    \/ ResetCall
    \/ Tick

SpecCB == InitCB /\ [][NextCB]_vars

Next ==
    \/ \E s \in Sessions : Accept(s)
    \/ \E s \in Sessions : AcquireCheckClosed(s)
    \/ \E s \in Sessions : AcquireSelect(s)
    \/ \E s \in Sessions : CreateBefore(s)
    \/ \E s \in Sessions : CreateDial(s)
    \/ \E s \in Sessions : CreateCount(s)
    \/ \E s \in Sessions : Handshake(s)
    \/ \E s \in Sessions : AuthStep(s)
    \/ \E s \in Sessions : Query(s)
    \/ \E s \in Sessions : Quit(s)
    \/ \E s \in Sessions : ReleaseCheckClosed(s)
    \/ \E s \in Sessions : ReleaseReturn(s)
    \/ ReaperTick
    \/ ReaperDrain
    \/ ReaperRefill
    \/ CloseStart
    \/ CloseChan
    \/ CloseDrain

Spec == Init /\ [][Next]_vars

\* The pool on its own: callers acquire, use and release connections with no
\* session protocol in between, next to the reaper and Close. Every use a
\* session makes of its connection is one of these.
NextPool ==
    \/ \E s \in Sessions : Accept(s)
    \/ \E s \in Sessions : AcquireCheckClosed(s)
    \/ \E s \in Sessions : AcquireSelect(s)
    \/ \E s \in Sessions : CreateBefore(s)
    \/ \E s \in Sessions : CreateDial(s)
    \/ \E s \in Sessions : CreateCount(s)
    \/ \E s \in Sessions : UseConn(s)
    \/ \E s \in Sessions : ReleaseCheckClosed(s)
    \/ \E s \in Sessions : ReleaseReturn(s)
    \/ ReaperTick
    \/ ReaperDrain
    \/ ReaperRefill
    \/ CloseStart
    \/ CloseChan
    \/ CloseDrain

SpecPool == Init /\ [][NextPool]_vars

\* ======================= circuit breaker claims ===========================
\* a beforeRequest ran in this step (an acquire arrived at the breaker)
Arrived == cb'.totalRequests = cb.totalRequests + 1
\* the arriving call was turned away: counted as one rejection, no fn started
Rejected ==
    /\ cb'.totalRejections = cb.totalRejections + 1
    /\ \A c \in Callers : callers'[c].pc = "fn" => callers[c].pc = "fn"
\* the arriving call was let through to fn
Admitted ==
    /\ cb'.totalRejections = cb.totalRejections
    /\ \E c \in Callers : callers[c].pc = "idle" /\ callers'[c].pc = "fn"
\* Reset ran in this step: the breaker was closed by hand
ByHand == callers' = callers /\ now' = now
\* dials of the current half-open window whose fn is running
Probes == {c \in Callers : callers[c].pc = "fn" /\ callers[c].epoch = hoEpoch}

\* C3: from Closed, the MaxFailures-th failure in a row opens the breaker, and
\* every call arriving while it is Open and less than Timeout after it opened
\* is rejected with ErrCircuitBreakerOpen, without running fn, and counted once.
C3_OpenAfterMaxFailures ==
    [][ /\ (cb.state = StateClosed /\ streak' > streak /\ streak' >= cb.config.MaxFailures)
              => cb'.state = StateOpen
        /\ (cb.state = StateOpen /\ now - cb.lastStateChange < cb.config.Timeout /\ Arrived)
              => (Rejected /\ cb'.state = StateOpen) ]_vars
C3_Witness ==
    /\ cb.state = StateOpen /\ openedFrom = StateClosed
    /\ streak >= cb.config.MaxFailures /\ openRej
    /\ \E c \in Callers : callers[c].pc = "idle" /\ callers[c].err = ErrCircuitBreakerOpen

\* C4: if the dial that moved the breaker to HalfOpen succeeds and the next
\* MaxRequests - 1 dials, run one after another, succeed too, the breaker is
\* Closed when the last of them has been recorded.
C4_ClosedAfterMaxProbes ==
    [][ (hoSeq' = cb.config.MaxRequests /\ hoSeq # cb.config.MaxRequests) => cb'.state = StateClosed ]_vars

\* C5: the breaker goes from HalfOpen to Closed, unless it is reset by hand,
\* only when at least MaxRequests dials admitted in this half-open window have
\* returned successfully.
C5_CloseNeedsMaxSuccesses ==
    [][ (cb.state = StateHalfOpen /\ cb'.state = StateClosed /\ ~ByHand)
            => hoDone' >= cb.config.MaxRequests ]_vars

\* C6: while HalfOpen at most MaxRequests dials of the window are running, the
\* dial that made the transition included, and a call arriving when that many
\* are running is rejected.
C6_HalfOpenProbeLimit ==
    [][ /\ cb'.state = StateHalfOpen => Cardinality(Probes') <= cb.config.MaxRequests
        /\ (cb.state = StateHalfOpen /\ Cardinality(Probes) >= cb.config.MaxRequests /\ Arrived)
              => Rejected ]_vars

\* C7: the breaker leaves Open, unless it is reset by hand, only in a step in
\* which a call arrives, and a call arriving at least Timeout after the breaker
\* opened is admitted: the breaker becomes HalfOpen and fn runs.
C7_AdmitAfterCooldown ==
    [][ /\ (cb.state = StateOpen /\ cb'.state # StateOpen /\ ~ByHand) => Arrived
        /\ (cb.state = StateOpen /\ now - cb.lastStateChange >= cb.config.Timeout /\ Arrived)
              => (cb'.state = StateHalfOpen /\ Admitted) ]_vars

\* C8: a failure recorded while HalfOpen opens the breaker, whatever succeeded
\* before, and calls arriving less than Timeout after that are rejected
\* without running fn.
C8_HalfOpenFailureReopens ==
    [][ /\ (cb.state = StateHalfOpen /\ cb'.totalFailures = cb.totalFailures + 1)
              => (cb'.state = StateOpen /\ cb'.lastStateChange = now)
        /\ (cb.state = StateOpen /\ openedFrom = StateHalfOpen
               /\ now - cb.lastStateChange < cb.config.Timeout /\ Arrived)
              => (Rejected /\ cb'.state = StateOpen) ]_vars
C8_Witness ==
    /\ cb.state = StateOpen /\ openedFrom = StateHalfOpen
    /\ hoDone >= 1 /\ openRej

\* ======================= pool and session claims ==========================
\* C1: a backend connection is held by at most one session, and a connection a
\* session holds is neither in the idle channel, nor in the reaper's hands,
\* nor closed under the session.
C1_ExclusiveLease ==
    \A s \in Sessions :
        sess[s].conn # NoConn =>
            /\ \A t \in Sessions \ {s} : sess[t].conn # sess[s].conn
            /\ sess[s].conn \notin Range(connections)
            /\ sess[s].conn \notin Range(reaper.healthyConns)
            /\ conn[sess[s].conn].status = "open"
\* the second session runs on the connection the first one released
C1_Witness ==
    /\ cb.totalRequests = 1 /\ ~closed
    /\ \E s \in Sessions :
          /\ sess[s].conn = 1 /\ sess[s].pc = "handshake"
          /\ \E t \in Sessions \ {s} : sess[t].pc = "done"

\* C2: a connection whose in-transaction flag was set when it was released is
\* closed: it is not in the idle channel and no session gets it again.
C2_TxConnNeverIdle ==
    \A c \in relInTx :
        /\ conn[c].status = "closed"
        /\ c \notin Range(connections)
        /\ c \notin Range(reaper.healthyConns)
        /\ \A s \in Sessions : sess[s].conn # c
C2_Witness ==
    /\ relInTx # {} /\ ~closed /\ ~chanClosed

\* C9: the connections leased at one time never exceed PoolSize, and an
\* Acquire made while PoolSize connections are leased does not dial.
C9_LeasedWithinPoolSize ==
    [][ /\ Cardinality(Leased') <= PoolSize
        /\ Cardinality(Leased) >= PoolSize =>
              \A s \in Sessions : sess'[s].pc = "cc_dial" => sess[s].pc = "cc_dial" ]_vars

\* C10: a session whose Acquire is rejected by the open breaker has written an
\* ERR packet to its client when it closes the client socket.
C10_ErrPacketOnUnavailable ==
    [][ \A s \in Sessions :
            (sess[s].pc = "cc_before" /\ sess'[s].pc = "done")
                => (clientOut'[s] # <<>> /\ clientOut'[s][Len(clientOut'[s])] = "ERR") ]_vars

\* ---- float64 arithmetic of the rounding engine ---------------------------
\* Natural numbers beyond 31 bits: little-endian digits in base 2^13, no
\* leading zero digit; zero is the empty sequence
LimbBase == 8192
LimbBits == 13

\* the element of a singleton. A name bound as  x \in {e}  stands for the value
\* of e, worked out once, where a parameter or a LET definition may be worked
\* out again at each mention; the operators below bind what they use more
\* than once.
Only(S) == CHOOSE x \in S : TRUE

RECURSIVE Pow2(_)
Pow2(n) == IF n = 0 THEN 1 ELSE 2 * Pow2(n - 1)

RECURSIVE BigOf(_)
BigOf(n0) ==
    Only({IF n = 0 THEN <<>> ELSE <<n % LimbBase>> \o BigOf(n \div LimbBase) : n \in {n0}})

RECURSIVE BigToInt(_)
BigToInt(a0) ==
    Only({IF a = <<>> THEN 0 ELSE Head(a) + LimbBase * BigToInt(Tail(a)) : a \in {a0}})

RECURSIVE BigTrim(_)
BigTrim(a0) ==
    Only({IF a = <<>> THEN a
          ELSE IF a[Len(a)] = 0 THEN BigTrim(SubSeq(a, 1, Len(a) - 1)) ELSE a
          : a \in {a0}})

\* a * m + carry for m < 2^17
RECURSIVE BigMulAdd(_, _, _)
BigMulAdd(a0, m0, carry0) ==
    Only({IF a = <<>> THEN BigOf(carry)
          ELSE LET v == Head(a) * m + carry IN
               <<v % LimbBase>> \o BigMulAdd(Tail(a), m, v \div LimbBase)
          : a \in {a0}, m \in {m0}, carry \in {carry0}})

BigMulSmall(a, m) == BigTrim(BigMulAdd(a, m, 0))
BigAddSmall(a, c) == BigTrim(BigMulAdd(a, 1, c))

\* quotient and remainder of a by d < 2^17, from the top digit down
RECURSIVE BigDivRem(_, _)
BigDivRem(a0, d0) ==
    Only({IF a = <<>> THEN [q |-> <<>>, r |-> 0]
          ELSE Only({LET v == hi.r * LimbBase + Head(a)
                     IN [q |-> <<v \div d>> \o hi.q, r |-> v % d]
                     : hi \in {BigDivRem(Tail(a), d)}})
          : a \in {a0}, d \in {d0}})

BigDivSmall(a, d) == Only({[q |-> BigTrim(x.q), r |-> x.r] : x \in {BigDivRem(a, d)}})

RECURSIVE BitLen(_)
BitLen(n0) == Only({IF n = 0 THEN 0 ELSE 1 + BitLen(n \div 2) : n \in {n0}})

BigBitLen(a0) ==
    Only({IF a = <<>> THEN 0 ELSE (Len(a) - 1) * LimbBits + BitLen(a[Len(a)]) : a \in {a0}})

BigIsOdd(a0) == Only({a # <<>> /\ a[1] % 2 = 1 : a \in {a0}})

\* a * 2^k and floor(a / 2^k)
BigShl(a0, k0) ==
    Only({IF a = <<>> THEN a
          ELSE [i \in 1..(k \div LimbBits) |-> 0] \o BigMulSmall(a, Pow2(k % LimbBits))
          : a \in {a0}, k \in {k0}})

BigShr(a0, k0) ==
    Only({IF k \div LimbBits >= Len(a) THEN <<>>
          ELSE BigDivSmall(SubSeq(a, (k \div LimbBits) + 1, Len(a)), Pow2(k % LimbBits)).q
          : a \in {a0}, k \in {k0}})

\* a < b
RECURSIVE BigLess(_, _)
BigLess(a0, b0) ==
    Only({IF Len(a) # Len(b) THEN Len(a) < Len(b)
          ELSE IF a = <<>> THEN FALSE
          ELSE IF a[Len(a)] # b[Len(b)] THEN a[Len(a)] < b[Len(b)]
          ELSE BigLess(BigTrim(SubSeq(a, 1, Len(a) - 1)), BigTrim(SubSeq(b, 1, Len(b) - 1)))
          : a \in {a0}, b \in {b0}})

\* a - b for a >= b
RECURSIVE BigSubBorrow(_, _, _)
BigSubBorrow(a0, b0, borrow0) ==
    Only({IF a = <<>> THEN <<>>
          ELSE LET v == Head(a) - (IF b = <<>> THEN 0 ELSE Head(b)) - borrow IN
               <<IF v < 0 THEN v + LimbBase ELSE v>>
                  \o BigSubBorrow(Tail(a), IF b = <<>> THEN b ELSE Tail(b),
                                  IF v < 0 THEN 1 ELSE 0)
          : a \in {a0}, b \in {b0}, borrow \in {borrow0}})

BigSub(a, b) == BigTrim(BigSubBorrow(a, b, 0))

\* a float64 that is not zero: sign, 53-bit significand m (2^52 <= m < 2^53)
\* and exponent e, standing for m * 2^e; zero has m = <<>>. The values of the
\* model stay far from the limits of the exponent.
Float64(neg, m, e) == [neg |-> neg, m |-> m, e |-> e]

\* q * 2^e (plus something below one unit of q when sticky) rounded to 53 bits,
\* ties to even; q has more than 53 bits whenever sticky holds
RoundTo53(neg0, q0, sticky0, e0) ==
    Only({IF q = <<>> THEN Float64(FALSE, <<>>, 0)
          ELSE IF len <= 53 THEN Float64(neg, BigShl(q, 53 - len), e - (53 - len))
          ELSE Only({LET k == len - 53
                         half == BigIsOdd(upper)
                         below == sticky \/ BigShl(upper, k - 1) # q
                         up == half /\ (below \/ BigIsOdd(kept))
                     IN Only({IF BigBitLen(m) = 54 THEN Float64(neg, BigShr(m, 1), e + k + 1)
                              ELSE Float64(neg, m, e + k)
                              : m \in {IF up THEN BigAddSmall(kept, 1) ELSE kept}})
                     : upper \in {BigShr(q, len - 53 - 1)},
                       kept \in {BigShr(q, len - 53)}})
          : neg \in {neg0}, q \in {q0}, sticky \in {sticky0}, e \in {e0},
            len \in {BigBitLen(q0)}})

\* floor((q + r / d) * 2^k) and the remainder left, one bit at a time, for
\* r < d
RECURSIVE BigDivBits(_, _, _, _)
BigDivBits(q0, r0, d0, k0) ==
    Only({IF k = 0 THEN [q |-> q, r |-> r]
          ELSE Only({IF BigLess(r2, d) THEN BigDivBits(BigMulSmall(q, 2), r2, d, k - 1)
                     ELSE BigDivBits(BigTrim(BigMulAdd(q, 2, 1)), BigSub(r2, d), d, k - 1)
                     : r2 \in {BigMulSmall(r, 2)}})
          : q \in {q0}, r \in {r0}, d \in {d0}, k \in {k0}})

\* float64(a) / float64(b) for integers a and b # 0 below 2^31 in magnitude:
\* the conversions are exact, the quotient is rounded
Float64Quotient(a0, b0) ==
    Only({LET neg == (a < 0) # (b < 0)
              n == IF a < 0 THEN -a ELSE a
              d == IF b < 0 THEN -b ELSE b
              k == 55 + BitLen(d)
          IN IF d < 131072
             THEN Only({RoundTo53(neg, x.q, x.r # 0, -k)
                        : x \in {BigDivSmall(BigShl(BigOf(n), k), d)}})
             ELSE Only({RoundTo53(neg, x.q, x.r # <<>>, -k)
                        : x \in {BigDivBits(BigOf(n \div d), BigOf(n % d), BigOf(d), k)}})
          : a \in {a0}, b \in {b0}})

\* x / float64(d) for a float64 x and an integer d with 0 < d < 2^17
Float64Over(x0, d0) ==
    Only({IF x.m = <<>> THEN x
          ELSE LET k == 2 + BitLen(d) IN
               Only({RoundTo53(x.neg, y.q, y.r # 0, x.e - k)
                     : y \in {BigDivSmall(BigShl(x.m, k), d)}})
          : x \in {x0}, d \in {d0}})

\* x * 10^p: math.Pow(10, p) is exact, the product is rounded
RECURSIVE BigTimesPow10(_, _)
BigTimesPow10(a0, p0) ==
    Only({IF p = 0 THEN a ELSE BigTimesPow10(BigMulSmall(a, 10), p - 1)
          : a \in {a0}, p \in {p0}})

Float64TimesPow10(x0, p) ==
    Only({RoundTo53(x.neg, BigTimesPow10(x.m, p), FALSE, x.e) : x \in {x0}})

\* |x| split at the binary point: integer part, and fraction as num / 2^bits
Float64Split(x0) ==
    Only({IF x.e >= 0 THEN [int |-> BigShl(x.m, x.e), num |-> <<>>, bits |-> 0]
          ELSE Only({[int |-> i, num |-> BigSub(x.m, BigShl(i, -x.e)), bits |-> -x.e]
                     : i \in {BigShr(x.m, -x.e)}})
          : x \in {x0}})

\* the float64 constants 0.5 - epsilon and 0.5 + epsilon of bankersRound
\* (epsilon = 1e-9): 9007199236726593 * 2^-54 and 4503599636377695 * 2^-53
HalfMinusEpsilon == [m |-> <<8001, 5992, 8191, 8191, 1>>, bits |-> 54]
HalfPlusEpsilon == [m |-> <<4191, 1099, 0, 0, 1>>, bits |-> 53]

\* num / 2^bits < c, and num / 2^bits > c
FractionLess(num0, bits0, c) ==
    Only({IF bits <= c.bits THEN BigLess(BigShl(num, c.bits - bits), c.m)
          ELSE BigLess(num, BigShl(c.m, bits - c.bits))
          : num \in {num0}, bits \in {bits0}})
FractionMore(num0, bits0, c) ==
    Only({IF bits <= c.bits THEN BigLess(c.m, BigShl(num, c.bits - bits))
          ELSE BigLess(BigShl(c.m, bits - c.bits), num)
          : num \in {num0}, bits \in {bits0}})

\* strconv.FormatFloat(x, 'f', digits, 64), as fmt.Sprintf("%.4f") calls it:
\* the decimal with that many fractional digits nearest to the exact value of
\* x, ties to even; the number printed times 10^digits
FormatFixed(x0, digits) ==
    Only({Only({LET rest == IF x.e >= 0 THEN <<>> ELSE BigSub(n, BigShl(q, -x.e))
                    half == IF x.e >= 0 THEN <<1>> ELSE BigShl(<<1>>, -x.e - 1)
                    up == Only({BigLess(h, r) \/ (r = h /\ BigIsOdd(q))
                                : r \in {rest}, h \in {half}})
                    k == BigToInt(q) + (IF up THEN 1 ELSE 0)
                IN IF x.neg THEN -k ELSE k
                : q \in {IF x.e >= 0 THEN BigShl(n, x.e) ELSE BigShr(n, -x.e)}})
          : x \in {x0}, n \in {BigTimesPow10(x0.m, digits)}})

\* ======================= SQL rewriter (internal/parser) ===================
\* A value-literal of a statement is [kind, num, frac]: its kind as sqlparser
\* types it, and the number fmt.Sscanf("%f") reads from its text, num / 10^frac
\* (0 when the text does not start with a number). The text of a numeric
\* literal has exactly frac fractional digits.
RECURSIVE Pow10(_)
Pow10(n) == IF n = 0 THEN 1 ELSE 10 * Pow10(n - 1)

IntVal(n) == [kind |-> "IntVal", num |-> n, frac |-> 0]
FloatVal(n, f) == [kind |-> "FloatVal", num |-> n, frac |-> f]
StrVal(n) == [kind |-> "StrVal", num |-> n, frac |-> 0]
NullVal == [kind |-> "NullVal", num |-> 0, frac |-> 0]
BoolVal == [kind |-> "BoolVal", num |-> 0, frac |-> 0]
\* any other sqlparser.Expr, such as  total_amount + 1  or  NOW()
OtherExpr == [kind |-> "Expr", num |-> 0, frac |-> 0]

\* extractValue: the Go value of a literal: a string, a bool or nil
extractValue(expr) ==
    IF expr.kind \in {"IntVal", "StrVal", "FloatVal"}
    THEN [type |-> "string", num |-> expr.num, frac |-> expr.frac]
    ELSE IF expr.kind = "BoolVal" THEN [type |-> "bool", num |-> 0, frac |-> 0]
    ELSE IF expr.kind = "NullVal" THEN [type |-> "nil", num |-> 0, frac |-> 0]
    ELSE [type |-> "string", num |-> expr.num, frac |-> expr.frac]

\* the index of the last position of column c among the first n columns
LastIndex(columns, n, c) ==
    CHOOSE i \in 1..n : columns[i] = c /\ \A j \in (i+1)..n : columns[j] # c

MinInt(a, b) == IF a < b THEN a ELSE b

\* the currency columns among a list of column names, in order
RECURSIVE CurrencyOf(_, _)
CurrencyOf(columns, tableConfig) ==
    IF columns = <<>> THEN <<>>
    ELSE IF Head(columns) \in DOMAIN tableConfig.Columns
         THEN <<Head(columns)>> \o CurrencyOf(Tail(columns), tableConfig)
         ELSE CurrencyOf(Tail(columns), tableConfig)

\* Parser.analyzeInsert
analyzeInsert(stmt, tables) ==
    LET pq0 == [Type |-> "Insert", Statement |-> stmt, TableName |-> stmt.table,
                CurrencyColumns |-> <<>>, Values |-> <<>>, NeedsTransform |-> FALSE]
    IN
    IF stmt.table \notin DOMAIN tables \/ ~tables[stmt.table].Enabled THEN pq0
    ELSE LET cur == CurrencyOf(stmt.columns, tables[stmt.table])
             n == IF stmt.rows = <<>> THEN 0
                  ELSE MinInt(Len(stmt.columns), Len(stmt.rows[1]))
             vals == [c \in {stmt.columns[i] : i \in 1..n} |->
                         extractValue(stmt.rows[1][LastIndex(stmt.columns, n, c)])]
         IN [pq0 EXCEPT !.CurrencyColumns = cur, !.Values = vals,
                        !.NeedsTransform = (cur # <<>>)]

\* Parser.analyzeUpdate
analyzeUpdate(stmt, tables) ==
    LET pq0 == [Type |-> "Update", Statement |-> stmt, TableName |-> stmt.table,
                CurrencyColumns |-> <<>>, Values |-> <<>>, NeedsTransform |-> FALSE]
    IN
    IF stmt.table \notin DOMAIN tables \/ ~tables[stmt.table].Enabled THEN pq0
    ELSE LET names == [i \in 1..Len(stmt.exprs) |-> stmt.exprs[i].name]
             cur == CurrencyOf(names, tables[stmt.table])
             vals == [c \in {cur[i] : i \in 1..Len(cur)} |->
                         extractValue(
                             stmt.exprs[LastIndex(names, Len(names), c)].expr)]
         IN [pq0 EXCEPT !.CurrencyColumns = cur, !.Values = vals,
                        !.NeedsTransform = (cur # <<>>)]

\* Parser.Parse on the statement sqlparser.Parse returned
Parse(stmt, tables) ==
    IF stmt.type = "Insert" THEN analyzeInsert(stmt, tables)
    ELSE IF stmt.type = "Update" THEN analyzeUpdate(stmt, tables)
    ELSE IF stmt.type \in {"Select", "Delete"}
    THEN [Type |-> stmt.type, Statement |-> stmt, TableName |-> stmt.table,
          CurrencyColumns |-> <<>>, Values |-> <<>>, NeedsTransform |-> FALSE]
    ELSE [Type |-> "Unknown", Statement |-> stmt, TableName |-> "",
          CurrencyColumns |-> <<>>, Values |-> <<>>, NeedsTransform |-> FALSE]

\* fmt.Sscanf(strVal, "%f", &floatVal): the float64 nearest to the number the
\* text starts with, num / 10^frac
Sscanf(num, frac) == Float64Quotient(num, Pow10(frac))

\* handleQuery, "Convert currency values": every value of pq.Values that is a
\* Go string is scanned with Sscanf("%f") and divided by float64(ratio), in
\* float64
convertedValues(pq, ratio) ==
    [c \in {x \in DOMAIN pq.Values : pq.Values[x].type = "string"} |->
        Float64Over(Sscanf(pq.Values[c].num, pq.Values[c].frac), ratio)]

\* the number of fractional digits of fmt.Sprintf("%.4f", ...)
SprintfDigits == 4

\* sqlparser.NewFloatVal([]byte(fmt.Sprintf("%.4f", convertedValue)))
NewShadowVal(v) == FloatVal(FormatFixed(v, SprintfDigits), SprintfDigits)

\* the shadow column names appended to the column list
RECURSIVE ShadowColumns(_, _)
ShadowColumns(cur, tableConfig) ==
    IF cur = <<>> THEN <<>>
    ELSE <<tableConfig.Columns[Head(cur)].TargetColumn>>
             \o ShadowColumns(Tail(cur), tableConfig)

\* the shadow values appended to a row: one per currency column that has a
\* converted value
RECURSIVE ShadowValues(_, _)
ShadowValues(cur, converted) ==
    IF cur = <<>> THEN <<>>
    ELSE IF Head(cur) \in DOMAIN converted
         THEN <<NewShadowVal(converted[Head(cur)])>>
                  \o ShadowValues(Tail(cur), converted)
         ELSE ShadowValues(Tail(cur), converted)

\* Parser.rewriteInsert
rewriteInsert(stmt, pq, tableConfig, converted) ==
    [stmt EXCEPT
        !.columns = stmt.columns \o ShadowColumns(pq.CurrencyColumns, tableConfig),
        !.rows = [i \in 1..Len(stmt.rows) |->
                     stmt.rows[i] \o ShadowValues(pq.CurrencyColumns, converted)]]

\* the shadow assignments appended to the SET clause
RECURSIVE ShadowExprs(_, _, _)
ShadowExprs(cur, tableConfig, converted) ==
    IF cur = <<>> THEN <<>>
    ELSE IF Head(cur) \in DOMAIN converted
         THEN <<[name |-> tableConfig.Columns[Head(cur)].TargetColumn,
                 expr |-> NewShadowVal(converted[Head(cur)])]>>
                  \o ShadowExprs(Tail(cur), tableConfig, converted)
         ELSE ShadowExprs(Tail(cur), tableConfig, converted)

\* Parser.rewriteUpdate
rewriteUpdate(stmt, pq, tableConfig, converted) ==
    [stmt EXCEPT
        !.exprs = stmt.exprs \o ShadowExprs(pq.CurrencyColumns, tableConfig, converted)]

\* Parser.RewriteForDualWrite
RewriteForDualWrite(pq, tables, converted) ==
    IF ~pq.NeedsTransform THEN pq.Statement
    ELSE IF pq.Type = "Insert"
    THEN rewriteInsert(pq.Statement, pq, tables[pq.TableName], converted)
    ELSE IF pq.Type = "Update"
    THEN rewriteUpdate(pq.Statement, pq, tables[pq.TableName], converted)
    ELSE pq.Statement

\* handleQuery from "Parse query" on: the statement that forwardCommand sends.
\* rewritten is FALSE when the original packet is forwarded byte for byte;
\* a statement of type "Invalid" is a text sqlparser.Parse rejects.
handleQuery(stmt, config) ==
    IF stmt.type = "Invalid" THEN [rewritten |-> FALSE, stmt |-> stmt]
    ELSE LET pq == Parse(stmt, config.Tables) IN
         IF ~pq.NeedsTransform THEN [rewritten |-> FALSE, stmt |-> stmt]
         ELSE [rewritten |-> TRUE,
               stmt |-> RewriteForDualWrite(pq, config.Tables,
                            convertedValues(pq, config.Conversion.Ratio))]

\* ---- rounding engine (internal/rounding) ---------------------------------
\* Engine.Round on a float64 value, step by step in float64. Each function
\* yields the integer n for the float64 n / 10^precision the code returns
\* (floor / multiplier and the like); the values of the model round to fewer
\* than 31 bits.
bankersRound(value, precision) ==
    Only({LET whole == parts.num = <<>>
              int == BigToInt(parts.int)
              floor == IF ~adjusted.neg THEN int ELSE IF whole THEN -int ELSE -int - 1
              ceil == IF adjusted.neg THEN -int ELSE IF whole THEN int ELSE int + 1
          IN \* fraction := adjusted - floor, rounded as the subtraction rounds it
             Only({IF FractionLess(fraction.m, -fraction.e, HalfMinusEpsilon) THEN floor
                   ELSE IF FractionMore(fraction.m, -fraction.e, HalfPlusEpsilon) THEN ceil
                   ELSE IF floor % 2 = 0 THEN floor
                   ELSE ceil
                   : fraction \in {RoundTo53(FALSE,
                                             IF adjusted.neg /\ ~whole
                                             THEN BigSub(BigShl(<<1>>, parts.bits), parts.num)
                                             ELSE parts.num,
                                             FALSE, -parts.bits)}})
          : adjusted \in {Float64TimesPow10(value, precision)},
            parts \in {Float64Split(Float64TimesPow10(value, precision))}})

\* math.Round(value * multiplier): to the nearest integer, halves away from
\* zero
arithmeticRound(value, precision) ==
    Only({LET int == BigToInt(parts.int)
              away == parts.bits > 0
                         /\ ~BigLess(BigShl(parts.num, 1), BigShl(<<1>>, parts.bits))
              n == IF away THEN int + 1 ELSE int
          IN IF adjusted.neg THEN -n ELSE n
          : adjusted \in {Float64TimesPow10(value, precision)},
            parts \in {Float64Split(Float64TimesPow10(value, precision))}})

\* math.Trunc(value * multiplier): the integer part, towards zero
noRound(value, precision) ==
    Only({LET int == BigToInt(Float64Split(adjusted).int)
          IN IF adjusted.neg THEN -int ELSE int
          : adjusted \in {Float64TimesPow10(value, precision)}})

Round(value, strategy, precision) ==
    IF strategy = "BANKERS_ROUND" THEN bankersRound(value, precision)
    ELSE IF strategy = "ARITHMETIC_ROUND" THEN arithmeticRound(value, precision)
    ELSE IF strategy = "NO_ROUND" THEN noRound(value, precision)
    ELSE bankersRound(value, precision)

\* Engine.ConvertIDRtoIDN: float64(idrValue) / float64(ratio) rounded by the
\* engine of the conversion's strategy and precision
ConvertIDRtoIDN(idrValue, conversion) ==
    Only({Round(idnValue, conversion.RoundingStrategy, conversion.Precision)
          : idnValue \in {Float64Quotient(idrValue, conversion.Ratio)}})

\* ---- the statements and configurations the rewriter is run on ------------
MaxRows == 2
MaxExprs == 2
MaxPrecision == 4

\* the tables of the parser's tests (getTestConfig): orders has two currency
\* columns, invoices one; the settings of orders.total_amount and whether
\* orders is enabled vary. Precision 0 in a ColumnConfig is the Go zero value,
\* no override
ColumnConfigOf(target, strategy, precision) ==
    [TargetColumn |-> target, RoundingStrategy |-> strategy, Precision |-> precision]

TablesConfigOf(enabled, strategy, precision) ==
    [t \in {"orders", "invoices"} |->
        IF t = "orders"
        THEN [Enabled |-> enabled,
              Columns |-> [c \in {"total_amount", "shipping_fee"} |->
                             IF c = "total_amount"
                             THEN ColumnConfigOf("total_amount_idn", strategy, precision)
                             ELSE ColumnConfigOf("shipping_fee_idn", "BANKERS_ROUND", 4)]]
        ELSE [Enabled |-> TRUE,
              Columns |-> [c \in {"grand_total"} |->
                             ColumnConfigOf("grand_total_idn", "BANKERS_ROUND", 4)]]]

Strategies == {"BANKERS_ROUND", "ARITHMETIC_ROUND"}

\* Config values that pass Config.Validate
Configs ==
    {[Conversion |-> [Ratio |-> r, Precision |-> p, RoundingStrategy |-> st],
      Tables |-> TablesConfigOf(en, cst, cp)] :
        r \in {3, 1000}, p \in 0..MaxPrecision, st \in Strategies,
        en \in BOOLEAN, cst \in {"", "NO_ROUND"}, cp \in {0, 2}}

\* the configuration of the manual: ratio 1000, precision 4, banker's rounding
DocConfig ==
    [Conversion |-> [Ratio |-> 1000, Precision |-> 4,
                     RoundingStrategy |-> "BANKERS_ROUND"],
     Tables |-> TablesConfigOf(TRUE, "BANKERS_ROUND", 4)]

Literals == {IntVal(1500), IntVal(2000), StrVal(0), NullVal, OtherExpr}
\* the values of the rows of multi-row INSERTs
RowLiterals == {IntVal(1500), IntVal(2000), StrVal(0)}

ColumnLists ==
    {<<>>, <<"total_amount">>, <<"id", "total_amount">>,
     <<"total_amount", "shipping_fee">>, <<"total_amount", "total_amount_idn">>}

InsertOf(table, columns, rows) ==
    [type |-> "Insert", table |-> table, columns |-> columns, rows |-> rows,
     exprs |-> <<>>]
UpdateOf(table, exprs) ==
    [type |-> "Update", table |-> table, columns |-> <<>>, rows |-> <<>>,
     exprs |-> exprs]
OtherOf(type, table) ==
    [type |-> type, table |-> table, columns |-> <<>>, rows |-> <<>>, exprs |-> <<>>]

Inserts(tables, lits, maxRows) ==
    UNION {{InsertOf(t, cols, rows) :
               t \in tables,
               rows \in UNION {[1..k -> [1..Len(cols) -> lits]] : k \in 1..maxRows}} :
           cols \in ColumnLists}

Updates(tables, lits, maxExprs) ==
    {UpdateOf(t, exprs) :
        t \in tables,
        exprs \in UNION {[1..k -> [name : {"status", "total_amount", "shipping_fee"},
                                   expr : lits]] : k \in 1..maxExprs}}

Others == {OtherOf(ty, "orders") : ty \in {"Select", "Delete", "Unknown", "Invalid"}}

\* every statement of the model
Statements ==
    Inserts({"orders", "logs"}, RowLiterals, MaxRows)
        \cup Updates({"orders", "logs"}, Literals, MaxExprs) \cup Others

\* one-row, one-assignment statements, run under every configuration
SmallStatements ==
    Inserts({"orders"}, Literals \cup {FloatVal(25, 1), FloatVal(5, 2), StrVal(12), BoolVal}, 1)
        \cup Updates({"orders"},
                      Literals \cup {FloatVal(25, 1), FloatVal(5, 2), StrVal(12), BoolVal}, 1)
        \cup Others

\* ---- the rewriter at work --------------------------------------------------
\* a COM_QUERY arrives under a configuration: every statement under the
\* configuration of the manual, the small ones under every configuration
InitRW ==
    /\ cb = NewCircuitBreaker(DefaultCircuitBreakerConfig, 0)
    /\ InitBase
    /\ \E config \in Configs \cup {DocConfig}, stmt \in Statements \cup SmallStatements :
          /\ config = DocConfig \/ stmt \in SmallStatements
          /\ rw = [pc |-> "query", config |-> config, stmt |-> stmt,
                   out |-> [rewritten |-> FALSE, stmt |-> stmt],
                   again |-> [rewritten |-> FALSE, stmt |-> stmt]]
    /\ store = IdleStore
    /\ ps = IdlePacketSession
    /\ bf = IdleWorker

\* Session.handleQuery on the query
HandleQuery ==
    /\ rw.pc = "query"
    /\ rw' = [rw EXCEPT !.pc = "forwarded", !.out = handleQuery(rw.stmt, rw.config)]
    /\ UNCHANGED <<now, cb, callers, cbHist, poolVars, store, ps, bf>>

\* Session.handleQuery on a query whose text is the statement it forwarded
HandleRewritten ==
    /\ rw.pc = "forwarded"
    /\ rw' = [rw EXCEPT !.pc = "again",
                        !.again = handleQuery(rw.out.stmt, rw.config)]
    /\ UNCHANGED <<now, cb, callers, cbHist, poolVars, store, ps, bf>>

NextRW ==
    \/ HandleQuery
    \/ HandleRewritten

SpecRW == InitRW /\ [][NextRW]_vars

\* ======================= rewriter claims ===================================
\* is a statement's table configured and enabled
Configured(config, stmt) ==
    stmt.table \in DOMAIN config.Tables /\ config.Tables[stmt.table].Enabled

\* an Integer or Float literal
IsNumeric(lit) == lit.kind \in {"IntVal", "FloatVal"}

\* the documented precision and rounding of a column: its own when set, the
\* global one otherwise
EffPrecision(config, table, c) ==
    IF config.Tables[table].Columns[c].Precision # 0
    THEN config.Tables[table].Columns[c].Precision
    ELSE config.Conversion.Precision
EffStrategy(config, table, c) ==
    IF config.Tables[table].Columns[c].RoundingStrategy # ""
    THEN config.Tables[table].Columns[c].RoundingStrategy
    ELSE config.Conversion.RoundingStrategy

\* a / b rounded to the nearest integer, ties to the even one (a >= 0, b > 0)
RoundHalfEven(a, b) ==
    LET q == a \div b
        r == a % b
    IN IF 2 * r < b THEN q
       ELSE IF 2 * r > b THEN q + 1
       ELSE IF q % 2 = 0 THEN q ELSE q + 1

\* round(v.num / v.den, precision, mode) as the documentation defines the
\* modes, on the exact quotient (v >= 0); the result times 10^precision
ExactRound(v, strategy, precision) ==
    LET a == v.num * Pow10(precision) IN
    IF strategy = "ARITHMETIC_ROUND"
    THEN IF 2 * (a % v.den) >= v.den THEN (a \div v.den) + 1 ELSE a \div v.den
    ELSE IF strategy = "NO_ROUND" THEN a \div v.den
    ELSE RoundHalfEven(a, v.den)

\* round(lit / ratio, precision, mode) of the column, as a literal
Converted(config, table, c, lit) ==
    LET p == EffPrecision(config, table, c) IN
    FloatVal(ExactRound([num |-> lit.num,
                         den |-> Pow10(lit.frac) * config.Conversion.Ratio],
                        EffStrategy(config, table, c), p), p)

\* two literals denote the same number
SameNumber(a, b) ==
    IF a.frac >= b.frac THEN a.num = b.num * Pow10(a.frac - b.frac)
    ELSE b.num = a.num * Pow10(b.frac - a.frac)

\* the currency columns of an INSERT's column list, and of an UPDATE's SET list
InsertCurrency(config, stmt) == CurrencyOf(stmt.columns, config.Tables[stmt.table])
UpdateNames(stmt) == [i \in 1..Len(stmt.exprs) |-> stmt.exprs[i].name]

\* a rewritten INSERT was forwarded for an INSERT with currency columns
InsertRewriteCase ==
    /\ rw.pc = "forwarded"
    /\ rw.stmt.type = "Insert"
    /\ Configured(rw.config, rw.stmt)
    /\ InsertCurrency(rw.config, rw.stmt) # <<>>

\* every currency value of every row of the INSERT is numeric
InsertAllNumeric ==
    \A i \in 1..Len(rw.stmt.rows) : \A k \in 1..Len(rw.stmt.columns) :
        rw.stmt.columns[k] \in DOMAIN rw.config.Tables[rw.stmt.table].Columns
            => IsNumeric(rw.stmt.rows[i][k])

\* C15: in a multi-row INSERT on a configured table every row gets one shadow
\* value per currency column, and the value appended to row i is the rounded
\* quotient of row i's own value of that column.
C15_RowsGetOwnShadowValue ==
    (InsertRewriteCase /\ InsertAllNumeric /\ Len(rw.stmt.rows) > 1) =>
        LET cur == InsertCurrency(rw.config, rw.stmt)
            n == Len(rw.stmt.columns)
        IN /\ Len(rw.out.stmt.rows) = Len(rw.stmt.rows)
           /\ \A i \in 1..Len(rw.stmt.rows) :
                /\ Len(rw.out.stmt.rows[i]) = n + Len(cur)
                /\ \A k \in 1..Len(cur) :
                     SameNumber(rw.out.stmt.rows[i][n + k],
                                Converted(rw.config, rw.stmt.table, cur[k],
                                    rw.stmt.rows[i][LastIndex(rw.stmt.columns, n, cur[k])]))

\* C16: an INSERT on a configured table with a currency value that is not an
\* Integer or Float literal is forwarded unchanged.
C16_NonNumericInsertUnchanged ==
    (InsertRewriteCase /\ ~InsertAllNumeric) =>
        (~rw.out.rewritten /\ rw.out.stmt = rw.stmt)

\* the shadow assignments an UPDATE is to get: one per assignment to a
\* currency column with a numeric right-hand side, in order
RECURSIVE NumericShadows(_, _, _)
NumericShadows(config, table, exprs) ==
    IF exprs = <<>> THEN <<>>
    ELSE IF Head(exprs).name \in DOMAIN config.Tables[table].Columns
            /\ IsNumeric(Head(exprs).expr)
         THEN <<config.Tables[table].Columns[Head(exprs).name].TargetColumn>>
                  \o NumericShadows(config, table, Tail(exprs))
         ELSE NumericShadows(config, table, Tail(exprs))

\* C17: in an UPDATE on a configured table the appended shadow assignments are
\* exactly those of the currency columns with a numeric right-hand side, after
\* all the original assignments.
C17_UpdateSkipsNonNumeric ==
    (/\ rw.pc = "forwarded"
     /\ rw.stmt.type = "Update"
     /\ Configured(rw.config, rw.stmt)
     /\ CurrencyOf(UpdateNames(rw.stmt), rw.config.Tables[rw.stmt.table]) # <<>>) =>
        LET n == Len(rw.stmt.exprs)
            out == rw.out.stmt.exprs
            want == NumericShadows(rw.config, rw.stmt.table, rw.stmt.exprs)
        IN /\ Len(out) = n + Len(want)
           /\ SubSeq(out, 1, n) = rw.stmt.exprs
           /\ \A k \in 1..Len(want) : out[n + k].name = want[k]

\* C18: rewriting is idempotent: the rewriter leaves a statement it has
\* rewritten as it is.
C18_RewriteIdempotent ==
    rw.pc = "again" => rw.again.stmt = rw.out.stmt

\* C19: every appended shadow literal has exactly the column's precision as
\* its number of fractional digits.
C19_ShadowLiteralPrecision ==
    /\ (InsertRewriteCase /\ InsertAllNumeric) =>
          LET cur == InsertCurrency(rw.config, rw.stmt)
              n == Len(rw.stmt.columns)
          IN \A i \in 1..Len(rw.out.stmt.rows) :
               \A k \in 1..(Len(rw.out.stmt.rows[i]) - n) :
                  k <= Len(cur) =>
                    rw.out.stmt.rows[i][n + k].frac
                        = EffPrecision(rw.config, rw.stmt.table, cur[k])
    /\ (/\ rw.pc = "forwarded" /\ rw.stmt.type = "Update"
        /\ Configured(rw.config, rw.stmt)
        /\ \A j \in 1..Len(rw.stmt.exprs) : IsNumeric(rw.stmt.exprs[j].expr)) =>
          LET cur == CurrencyOf(UpdateNames(rw.stmt), rw.config.Tables[rw.stmt.table])
              n == Len(rw.stmt.exprs)
          IN \A k \in 1..(Len(rw.out.stmt.exprs) - n) :
                k <= Len(cur) =>
                  rw.out.stmt.exprs[n + k].expr.frac
                      = EffPrecision(rw.config, rw.stmt.table, cur[k])

\* ---- configuration store and reload ----------------------------------------
MaxReloads == 2
MaxQueries == 2
\* make(chan *Config, 10) in NewRedisStore
ReloadChCap == 10

QSessions == {"q1", "q2"}

\* a Config as the management API binds it from JSON
FullConfig(conversion, tables) ==
    [Database |-> [Host |-> "localhost", Port |-> 3306],
     Proxy |-> [Port |-> 3307],
     Conversion |-> conversion,
     Tables |-> tables]

ConversionOf(ratio, precision, strategy) ==
    [Ratio |-> ratio, Precision |-> precision, RoundingStrategy |-> strategy]

\* Config.Validate returns nil
Validate(c) ==
    /\ c.Database.Host # ""
    /\ c.Database.Port # 0
    /\ c.Proxy.Port # 0
    /\ ~(c.Conversion.Ratio <= 0)
    /\ ~(c.Conversion.Precision < 0 \/ c.Conversion.Precision > 10)
    /\ c.Conversion.RoundingStrategy \in {"BANKERS_ROUND", "ARITHMETIC_ROUND"}

\* the configuration of the manual as the proxy loads it and as the API binds it
DocBody == FullConfig(DocConfig.Conversion, DocConfig.Tables)

\* configurations an operator may PUT: the manual's, the same with the table
\* switched off, the same with another ratio, and one that Validate rejects
ConfigVersions ==
    {DocBody,
     [DocBody EXCEPT !.Tables = TablesConfigOf(FALSE, "BANKERS_ROUND", 4)],
     [DocBody EXCEPT !.Conversion.Ratio = 3],
     [DocBody EXCEPT !.Conversion.Ratio = 0]}

QueryStatements ==
    {InsertOf("orders", <<"total_amount">>, <<<<IntVal(1500)>>>>),
     UpdateOf("orders", <<[name |-> "total_amount", expr |-> IntVal(2000)]>>),
     OtherOf("Select", "orders")}

NoSnapshot == [none |-> TRUE]
NoQuery == [none |-> TRUE]

\* a session nobody has opened yet
ClosedQSession == [pc |-> "idle", tables |-> <<>>, config |-> NoSnapshot,
                   queries |-> 0, last |-> NoQuery]

\* the value a reader of reloadCh would rebind to: the newest one delivered
Delivered(ch) == IF ch = <<>> THEN NoSnapshot ELSE ch[Len(ch)]

\* main: config.Load, proxy.NewServer(cfg); the API server saved the same file
InitStore ==
    /\ cb = NewCircuitBreaker(DefaultCircuitBreakerConfig, 0)
    /\ InitBase
    /\ rw = IdleRewriter
    /\ ps = IdlePacketSession
    /\ bf = IdleWorker
    /\ store = [pc |-> "running",
                redis |-> DocBody,
                watching |-> FALSE,
                pubsub |-> 0,
                loop |-> [pc |-> "wait", newCfg |-> NoSnapshot],
                reloadCh |-> <<>>,
                reloads |-> 0,
                published |-> 0,
                serverConfig |-> DocBody,
                q |-> [s \in QSessions |-> ClosedQSession]]

\* RedisStore.WatchConfigChanges: subscribe, start watchLoop
WatchConfigChanges ==
    /\ store.pc = "running"
    /\ ~store.watching
    /\ store' = [store EXCEPT !.watching = TRUE]
    /\ UNCHANGED <<now, cb, callers, cbHist, poolVars, rw, ps, bf>>

\* Server.handleUpdateConfig: a body that fails Validate is answered with 400
\* and not saved; otherwise SaveConfig
handleUpdateConfig(newConfig) ==
    /\ store.pc = "running"
    /\ store.reloads < MaxReloads
    /\ newConfig # store.redis
    /\ store' = IF Validate(newConfig)
                THEN [store EXCEPT !.redis = newConfig, !.reloads = @ + 1]
                ELSE [store EXCEPT !.reloads = @ + 1]
    /\ UNCHANGED <<now, cb, callers, cbHist, poolVars, rw, ps, bf>>

\* Server.handleReloadConfig: PublishReload; Redis hands the message to the
\* subscriptions that exist at that moment
handleReloadConfig ==
    /\ store.pc = "running"
    /\ store.published < MaxReloads
    /\ store' = [store EXCEPT !.published = @ + 1,
                               !.pubsub = IF store.watching THEN @ + 1 ELSE @]
    /\ UNCHANGED <<now, cb, callers, cbHist, poolVars, rw, ps, bf>>

\* RedisStore.watchLoop: a message is received and LoadConfig reads
\* config:main; when LoadConfig fails the loop goes round without sending
watchLoop ==
    /\ store.pc = "running"
    /\ store.watching
    /\ store.loop.pc = "wait"
    /\ store.pubsub > 0
    /\ \E loaded \in BOOLEAN :
          store' = [store EXCEPT
                       !.pubsub = @ - 1,
                       !.loop = IF loaded THEN [pc |-> "loaded", newCfg |-> store.redis]
                                ELSE @]
    /\ UNCHANGED <<now, cb, callers, cbHist, poolVars, rw, ps, bf>>

\* RedisStore.watchLoop: the non-blocking send of the configuration it loaded
watchLoopDeliver ==
    /\ store.pc = "running"
    /\ store.loop.pc = "loaded"
    /\ store' = [store EXCEPT
                    !.loop = [pc |-> "wait", newCfg |-> NoSnapshot],
                    !.reloadCh = IF Len(@) < ReloadChCap
                                 THEN Append(@, store.loop.newCfg) ELSE @]
    /\ UNCHANGED <<now, cb, callers, cbHist, poolVars, rw, ps, bf>>

\* Server.handleConnection: NewSession(conn, s.config, s.backendPool), then
\* Session.Handle builds its parser from s.config.Tables
NewSession(s) ==
    /\ store.pc = "running"
    /\ store.q[s].pc = "idle"
    /\ store' = [store EXCEPT !.q[s] =
                    [ClosedQSession EXCEPT !.pc = "ready",
                                           !.config = store.serverConfig,
                                           !.tables = store.serverConfig.Tables]]
    /\ UNCHANGED <<now, cb, callers, cbHist, poolVars, rw, ps, bf>>

\* Session.handleQuery on one COM_QUERY of a session in the command loop; the
\* record kept of it holds what reloadCh had delivered by then
SessionQuery(s, stmt) ==
    /\ store.pc = "running"
    /\ store.q[s].pc = "ready"
    /\ store.q[s].queries < MaxQueries
    /\ store' = [store EXCEPT
                    !.q[s].queries = @ + 1,
                    !.q[s].last =
                        [stmt |-> stmt,
                         out |-> handleQuery(stmt,
                                    [Conversion |-> store.q[s].config.Conversion,
                                     Tables |-> store.q[s].tables]),
                         delivered |-> Delivered(store.reloadCh)]]
    /\ UNCHANGED <<now, cb, callers, cbHist, poolVars, rw, ps, bf>>

\* COM_QUIT: the session ends
SessionQuit(s) ==
    /\ store.pc = "running"
    /\ store.q[s].pc = "ready"
    /\ store' = [store EXCEPT !.q[s].pc = "done"]
    /\ UNCHANGED <<now, cb, callers, cbHist, poolVars, rw, ps, bf>>

NextStore ==
    \/ WatchConfigChanges
    \/ \E c \in ConfigVersions : handleUpdateConfig(c)
    \/ handleReloadConfig
    \/ watchLoop
    \/ watchLoopDeliver
    \/ \E s \in QSessions : NewSession(s)
    \/ \E s \in QSessions, stmt \in QueryStatements : SessionQuery(s, stmt)
    \/ \E s \in QSessions : SessionQuit(s)

SpecStore == InitStore /\ [][NextStore]_vars

\* C20: a COM_QUERY processed after a new configuration was installed and
\* delivered on the reload channel is forwarded as the rewriter would forward
\* it under that delivered configuration, also in sessions opened before it
C20_QueriesUseCurrentSnapshot ==
    store.pc = "running" =>
        \A s \in QSessions :
            LET l == store.q[s].last IN
            ("stmt" \in DOMAIN l /\ l.delivered # NoSnapshot)
                => l.out = handleQuery(l.stmt, l.delivered)

\* C11: when a session that holds a backend connection ends, its connection
\* is released by that one step: closed if the session is in a transaction at
\* that moment, and otherwise placed, open, in the idle queue of the pool
C11_ReleasedOnceByTxState ==
    [][\A s \in Sessions :
          (sess[s].pc \in {"release", "rel_send"} /\ sess'[s].pc = "done") =>
              LET c == sess[s].conn IN
              IF sess[s].inTx
              THEN conn'[c].status = "closed" /\ c \notin Range(connections')
              ELSE conn'[c].status = "open" /\ c \in Range(connections')]_vars

\* ---- one session at packet level -------------------------------------------
\* packets the session reads from its two sockets before they fail
MaxPackets == 7

COM_QUIT == 1
COM_INIT_DB == 2
COM_QUERY == 3
COM_STATISTICS == 9
COM_PING == 14
OK_PACKET == 0
EOF_PACKET == 254
ERR_PACKET == 255

\* a payload: its first byte, its length, and for a COM_QUERY the text after
\* the command byte: text is its characters as the client sent them (left
\* empty for the statements sqlparser parses), stmt is what sqlparser makes
\* of it
NoStmt == OtherOf("None", "")
NoByte == -1
PayloadOf(first, len) == [first |-> first, len |-> len, text |-> <<>>, stmt |-> NoStmt]
EmptyPayload == PayloadOf(NoByte, 0)

\* len(query): the tokens of the statement
QueryLen(stmt) ==
    IF stmt.type = "Insert"
    THEN 1 + Len(stmt.columns) + Len(stmt.rows) * Len(stmt.columns)
    ELSE IF stmt.type = "Update" THEN 1 + 2 * Len(stmt.exprs)
    ELSE 1

\* payload[0] = COM_QUERY, payload[1:] = query
QueryPayload(text, stmt) ==
    [first |-> COM_QUERY, len |-> 1 + QueryLen(stmt), text |-> text, stmt |-> stmt]

Packet(seq, payload) == [SequenceID |-> seq, Payload |-> payload]

IsOKPacket(payload) ==
    IF payload.len < 7 THEN FALSE ELSE payload.first = OK_PACKET

IsEOFPacket(payload) ==
    IF payload.len < 5 THEN FALSE
    ELSE payload.first = EOF_PACKET /\ payload.len < 9

IsERRPacket(payload) ==
    IF payload.len < 3 THEN FALSE ELSE payload.first = ERR_PACKET

\* what the backend and the client may send at each stage
HandshakePackets == {Packet(0, PayloadOf(10, 8))}
AuthResponsePackets == {Packet(1, PayloadOf(141, 8))}
AuthResultPackets ==
    {Packet(2, pl) : pl \in {PayloadOf(OK_PACKET, 7), PayloadOf(OK_PACKET, 1),
                             PayloadOf(ERR_PACKET, 3), PayloadOf(ERR_PACKET, 2),
                             PayloadOf(EOF_PACKET, 9), PayloadOf(1, 2),
                             EmptyPayload}}
AuthMorePackets == {Packet(3, PayloadOf(32, 4))}

InvalidQuery == QueryPayload(<<>>, OtherOf("Invalid", ""))
InsertQuery ==
    QueryPayload(<<>>, InsertOf("orders", <<"total_amount">>, <<<<IntVal(1500)>>>>))

CommandPackets ==
    {Packet(0, PayloadOf(COM_QUIT, 1)), Packet(0, PayloadOf(COM_PING, 1)),
     Packet(0, PayloadOf(COM_INIT_DB, 3)), Packet(0, PayloadOf(COM_STATISTICS, 1)),
     Packet(0, EmptyPayload),
     Packet(0, InvalidQuery), Packet(1, InvalidQuery),
     Packet(0, InsertQuery),
     Packet(0, QueryPayload(<<" ">> \o Lowered(TextBegin) \o <<"\n">>,
                            OtherOf("Unknown", ""))),
     Packet(0, QueryPayload(TextCommit, OtherOf("Unknown", "")))}

ResponsePackets ==
    {Packet(1, pl) : pl \in {PayloadOf(OK_PACKET, 7), PayloadOf(ERR_PACKET, 9),
                             PayloadOf(EOF_PACKET, 5), PayloadOf(1, 1)}}

\* Server.config of the session
SessionConfig == DocConfig

\* WritePacket with the bytes reaching the peer ahead of what was written before
Relay_front(out, pkt) == <<pkt>> \o out

\* WritePacket: header and payload go onto the socket after what was written
Relay(out, pkt) == Append(out, pkt)

ReadBackend(p, pkt) == [p EXCEPT !.fromBackend = Append(@, pkt)]
WriteClient(p, pkt) == [p EXCEPT !.toClient = Relay(@, pkt)]
ReadClient(p, pkt) == [p EXCEPT !.fromClient = Append(@, pkt)]
\* from: the position among the packets read from the client of the one this
\* packet was made of
WriteBackend(p, pkt) ==
    [p EXCEPT !.toBackend = Relay(@, [pkt |-> pkt, from |-> Len(p.fromClient)])]

PacketsRead(p) == Len(p.fromBackend) + Len(p.fromClient)

\* the auth loop that reads the backend again after an auth-switch packet
authNext_noClientRound(payload) ==
    IF payload.len > 0
    THEN IF IsOKPacket(payload) THEN "ready"
         ELSE IF IsERRPacket(payload) THEN "release"
         ELSE "auth"
    ELSE "auth"

\* Handle, step 4: where the auth loop goes after relaying this payload
authNext(payload) ==
    IF payload.len > 0
    THEN IF IsOKPacket(payload) THEN "ready"
         ELSE IF IsERRPacket(payload) THEN "release"
         ELSE IF payload.first = 254 \/ payload.first = 1 THEN "authmore"
         ELSE "auth"
    ELSE "auth"

\* handleQuery building a fresh packet, numbered from zero, for every query
queryPacket_renumbered(cmdPkt, config) ==
    LET out == handleQuery(cmdPkt.Payload.stmt, config) IN
    [SequenceID |-> 0, Payload |-> QueryPayload(cmdPkt.Payload.text, out.stmt)]

\* handleQuery: the packet handed to forwardCommand
queryPacket(cmdPkt, config) ==
    LET out == handleQuery(cmdPkt.Payload.stmt, config) IN
    IF ~out.rewritten THEN cmdPkt
    ELSE [SequenceID |-> cmdPkt.SequenceID,
          Payload |-> QueryPayload(<<>>, out.stmt)]

\* response relay: where the relay stands after this payload
responseNext(phase, payload) ==
    IF phase = "head"
    THEN IF IsOKPacket(payload) \/ IsERRPacket(payload) \/ IsEOFPacket(payload)
         THEN "done" ELSE "columns"
    ELSE IF phase = "columns"
    THEN IF IsEOFPacket(payload) THEN "rows"
         ELSE IF IsERRPacket(payload) THEN "done" ELSE "columns"
    ELSE IF IsEOFPacket(payload) \/ IsERRPacket(payload) \/ IsOKPacket(payload)
         THEN "done" ELSE "rows"

\* Handle after Acquire returned a connection and the parser was built
InitSession ==
    /\ cb = NewCircuitBreaker(DefaultCircuitBreakerConfig, 0)
    /\ InitBase
    /\ rw = IdleRewriter
    /\ store = IdleStore
    /\ bf = IdleWorker
    /\ ps = [pc |-> "handshake", phase |-> "none",
             fromBackend |-> <<>>, toClient |-> <<>>,
             fromClient |-> <<>>, toBackend |-> <<>>,
             inTx |-> FALSE, cmds |-> 0, authErr |-> FALSE, ioErr |-> FALSE,
             released |-> 0]

\* Handle, step 2: the backend's handshake goes to the client
RelayHandshake ==
    /\ ps.pc = "handshake"
    /\ \/ ps' = [ps EXCEPT !.pc = "release", !.ioErr = TRUE]
       \/ /\ PacketsRead(ps) < MaxPackets
          /\ \E pkt \in HandshakePackets, wrote \in BOOLEAN :
                ps' = IF wrote
                      THEN [WriteClient(ReadBackend(ps, pkt), pkt) EXCEPT !.pc = "authresp"]
                      ELSE [ReadBackend(ps, pkt) EXCEPT !.pc = "release", !.ioErr = TRUE]
    /\ UNCHANGED <<now, cb, callers, cbHist, poolVars, rw, store, bf>>

\* Handle, step 3: the client's handshake response goes to the backend
RelayAuthResponse ==
    /\ ps.pc = "authresp"
    /\ \/ ps' = [ps EXCEPT !.pc = "release", !.ioErr = TRUE]
       \/ /\ PacketsRead(ps) < MaxPackets
          /\ \E pkt \in AuthResponsePackets, wrote \in BOOLEAN :
                ps' = IF wrote
                      THEN [WriteBackend(ReadClient(ps, pkt), pkt) EXCEPT !.pc = "auth"]
                      ELSE [ReadClient(ps, pkt) EXCEPT !.pc = "release", !.ioErr = TRUE]
    /\ UNCHANGED <<now, cb, callers, cbHist, poolVars, rw, store, bf>>

\* Handle, step 4: one backend packet of the auth loop: read, relayed, classified
AuthLoop ==
    /\ ps.pc = "auth"
    /\ \/ ps' = [ps EXCEPT !.pc = "release", !.ioErr = TRUE]
       \/ /\ PacketsRead(ps) < MaxPackets
          /\ \E pkt \in AuthResultPackets, wrote \in BOOLEAN :
                ps' = IF wrote
                      THEN [WriteClient(ReadBackend(ps, pkt), pkt) EXCEPT
                               !.pc = authNext(pkt.Payload),
                               !.authErr = authNext(pkt.Payload) = "release"]
                      ELSE [ReadBackend(ps, pkt) EXCEPT !.pc = "release", !.ioErr = TRUE]
    /\ UNCHANGED <<now, cb, callers, cbHist, poolVars, rw, store, bf>>

\* Handle, step 4, auth switch or more data: the client's answer goes to the backend
AuthMore ==
    /\ ps.pc = "authmore"
    /\ \/ ps' = [ps EXCEPT !.pc = "release", !.ioErr = TRUE]
       \/ /\ PacketsRead(ps) < MaxPackets
          /\ \E pkt \in AuthMorePackets, wrote \in BOOLEAN :
                ps' = IF wrote
                      THEN [WriteBackend(ReadClient(ps, pkt), pkt) EXCEPT !.pc = "auth"]
                      ELSE [ReadClient(ps, pkt) EXCEPT !.pc = "release", !.ioErr = TRUE]
    /\ UNCHANGED <<now, cb, callers, cbHist, poolVars, rw, store, bf>>

\* handleCommands: one command read from the client and dispatched, up to the
\* write of forwardCommand
HandleCommand ==
    /\ ps.pc = "ready"
    /\ \/ ps' = [ps EXCEPT !.pc = "release", !.ioErr = TRUE]
       \/ /\ PacketsRead(ps) < MaxPackets
          /\ \E pkt \in CommandPackets, wrote \in BOOLEAN :
                LET p1 == [ReadClient(ps, pkt) EXCEPT !.cmds = @ + 1]
                    pl == pkt.Payload IN
                IF pl.len = 0 THEN wrote /\ ps' = p1
                ELSE IF pl.first = COM_QUIT
                THEN wrote /\ ps' = [p1 EXCEPT !.pc = "release"]
                ELSE IF pl.first = COM_QUERY
                THEN LET p2 == [p1 EXCEPT !.inTx = txAfter(@, pl.text)] IN
                     ps' = IF wrote
                           THEN [WriteBackend(p2, queryPacket(pkt, SessionConfig))
                                    EXCEPT !.pc = "response", !.phase = "head"]
                           ELSE [p2 EXCEPT !.pc = "release", !.ioErr = TRUE]
                ELSE ps' = IF wrote
                           THEN [WriteBackend(p1, pkt)
                                    EXCEPT !.pc = "response", !.phase = "head"]
                           ELSE [p1 EXCEPT !.pc = "release", !.ioErr = TRUE]
    /\ UNCHANGED <<now, cb, callers, cbHist, poolVars, rw, store, bf>>

\* forwardCommand, response relay: one backend packet goes to the client
RelayResponse ==
    /\ ps.pc = "response"
    /\ \/ ps' = [ps EXCEPT !.pc = "release", !.ioErr = TRUE]
       \/ /\ PacketsRead(ps) < MaxPackets
          /\ \E pkt \in ResponsePackets, wrote \in BOOLEAN :
                LET next == responseNext(ps.phase, pkt.Payload) IN
                ps' = IF ~wrote
                      THEN [ReadBackend(ps, pkt) EXCEPT !.pc = "release", !.ioErr = TRUE]
                      ELSE IF next = "done"
                      THEN [WriteClient(ReadBackend(ps, pkt), pkt) EXCEPT
                               !.pc = "ready", !.phase = "none"]
                      ELSE [WriteClient(ReadBackend(ps, pkt), pkt) EXCEPT
                               !.phase = next]
    /\ UNCHANGED <<now, cb, callers, cbHist, poolVars, rw, store, bf>>

\* Handle returns: the deferred releaseBackendConnection and clientConn.Close
HandleReturn ==
    /\ ps.pc = "release"
    /\ ps' = [ps EXCEPT !.pc = "closed", !.released = @ + 1]
    /\ UNCHANGED <<now, cb, callers, cbHist, poolVars, rw, store, bf>>

NextSession ==
    \/ RelayHandshake
    \/ RelayAuthResponse
    \/ AuthLoop
    \/ AuthMore
    \/ HandleCommand
    \/ RelayResponse
    \/ HandleReturn

SpecSession == InitSession /\ [][NextSession]_vars

Last(q) == q[Len(q)]

\* out is in.Payload untouched, or the COM_QUERY handleQuery made of it
ComesFrom(out, in) ==
    \/ out = in
    \/ /\ in.Payload.len > 0
       /\ in.Payload.first = COM_QUERY
       /\ out.Payload.first = COM_QUERY
       /\ out.SequenceID = in.SequenceID

\* C12: within the session the client has received, in the backend's order,
\* a prefix of the packets read from the backend, and the packets written to
\* the backend each come from one client packet, in the client's order, no
\* client packet twice
C12_RelayIsFIFO ==
    ps.pc # "idle" =>
        /\ Len(ps.toClient) <= Len(ps.fromBackend)
        /\ \A i \in 1..Len(ps.toClient) : ps.toClient[i] = ps.fromBackend[i]
        /\ \A i \in 1..Len(ps.toBackend) :
              /\ ps.toBackend[i].from \in 1..Len(ps.fromClient)
              /\ ComesFrom(ps.toBackend[i].pkt, ps.fromClient[ps.toBackend[i].from])
        /\ \A i, j \in 1..Len(ps.toBackend) :
              i < j => ps.toBackend[i].from < ps.toBackend[j].from

\* two commands went through, one of them rewritten, and four backend packets
\* reached the client
C12_Witness ==
    /\ ps.pc = "ready"
    /\ Len(ps.toBackend) >= 3
    /\ Len(ps.toClient) >= 4
    /\ \E i \in 1..Len(ps.toBackend) :
          ps.toBackend[i].pkt # ps.fromClient[ps.toBackend[i].from]

\* C13: a COM_QUERY whose text sqlparser rejects is, unless the write to the
\* backend socket fails, forwarded as exactly one packet, the one the client
\* sent (same payload, same sequence id), and the session goes on to relay
\* the response instead of ending
C13_UnparsableForwardedOnce ==
    [][(ps.pc = "ready" /\ Len(ps'.fromClient) = Len(ps.fromClient) + 1) =>
          LET pkt == Last(ps'.fromClient) IN
          (/\ pkt.Payload.len > 0
           /\ pkt.Payload.first = COM_QUERY
           /\ pkt.Payload.stmt.type = "Invalid"
           /\ ~ps'.ioErr)
          => /\ ps'.toBackend =
                   Append(ps.toBackend, [pkt |-> pkt, from |-> Len(ps'.fromClient)])
             /\ ps'.pc = "response"
             /\ ps'.released = 0]_vars

\* an unparsable query with sequence id 1 went to the backend as it came and
\* the session waits for the response
C13_Witness ==
    /\ ps.pc = "response"
    /\ ps.phase = "head"
    /\ ~ps.ioErr
    /\ Last(ps.toBackend).pkt = Packet(1, InvalidQuery)
    /\ Last(ps.fromClient) = Packet(1, InvalidQuery)
    /\ Len(ps.toBackend) = 2

\* C14: in the auth loop every backend packet read is written to the client
\* (unless that write fails) and then: an OK packet (protocol.IsOKPacket)
\* takes the session to the command loop; an ERR packet (protocol.IsERRPacket)
\* ends it, and a session ended that way has read no command; a payload
\* starting 0xFE or 0x01 makes it relay exactly one client packet to the
\* backend, without reading the backend in between, and then read the backend
C14_AuthLoopClassifies ==
    [][/\ (ps.pc = "auth" /\ Len(ps'.fromBackend) = Len(ps.fromBackend) + 1
             /\ ~ps'.ioErr) =>
             LET pkt == Last(ps'.fromBackend) IN
             /\ ps'.toClient = Append(ps.toClient, pkt)
             /\ IsOKPacket(pkt.Payload) => ps'.pc = "ready"
             /\ IsERRPacket(pkt.Payload) => (ps'.pc = "release" /\ ps'.authErr)
             /\ (pkt.Payload.len > 0 /\ pkt.Payload.first \in {254, 1})
                    => ps'.pc = "authmore"
       /\ (ps.pc = "authmore" /\ ps'.pc # "authmore" /\ ~ps'.ioErr) =>
             /\ Len(ps'.fromClient) = Len(ps.fromClient) + 1
             /\ ps'.toBackend =
                   Append(ps.toBackend, [pkt |-> Last(ps'.fromClient),
                                         from |-> Len(ps'.fromClient)])
             /\ ps'.fromBackend = ps.fromBackend
             /\ ps'.pc = "auth"
       /\ (ps.pc = "authmore") => ps'.pc \in {"authmore", "auth", "release"}
       /\ ps'.authErr => (ps'.cmds = 0 /\ ps'.pc \in {"release", "closed"})]_vars

\* an auth switch was answered by the client and the OK that followed opened
\* the command loop
C14_Witness ==
    /\ ps.pc = "ready"
    /\ ps.cmds = 0
    /\ Len(ps.fromBackend) = 3
    /\ ps.fromBackend[2].Payload.first = 254
    /\ IsOKPacket(ps.fromBackend[3].Payload)
    /\ Len(ps.toBackend) = 2

\* ---- RedisStore: save, reload notifications, watchers ----------------------
\* callers of WatchConfigChanges on one RedisStore
NumWatchers == 2
Watchers == 1..NumWatchers

\* one table whose second column has the given target column and precision
TablesWith(target, precision) ==
    [t \in {"orders"} |->
        [Enabled |-> TRUE,
         Columns |-> [c \in {"total_amount", "shipping_fee"} |->
                        IF c = "total_amount"
                        THEN ColumnConfigOf("total_amount_idn", "BANKERS_ROUND", 4)
                        ELSE ColumnConfigOf(target, "", precision)]]]

\* the configuration of the manual as a request body
BaseBody ==
    FullConfig(ConversionOf(1000, 4, "BANKERS_ROUND"), TablesWith("shipping_fee_idn", 4))

\* the bodies a client may PUT: the base with one field changed
Candidates ==
    {[BaseBody EXCEPT !.Conversion.Ratio = r] : r \in {-1, 0, 1, 1000}}
    \cup {[BaseBody EXCEPT !.Conversion.Precision = p] : p \in {-1, 0, 10, 11}}
    \cup {[BaseBody EXCEPT !.Conversion.RoundingStrategy = st] :
            st \in {"ARITHMETIC_ROUND", "NO_ROUND", "FLOOR"}}
    \cup {[BaseBody EXCEPT !.Tables = TablesWith("shipping_fee_idn", cp)] :
            cp \in {-1, 0, 10, 11}}
    \cup {[BaseBody EXCEPT !.Tables = TablesWith("total_amount_idn", 4)],
          [BaseBody EXCEPT !.Database.Host = ""]}

\* the Config TestWatchConfigChanges saves: only the conversion is set
testConfig ==
    [Database |-> [Host |-> "", Port |-> 0],
     Proxy |-> [Port |-> 0],
     Conversion |-> ConversionOf(1000, 4, "BANKERS_ROUND"),
     Tables |-> <<>>]

\* the bodies put beside the watchers: the base with another ratio, and one
\* that Validate rejects
WatchBodies ==
    {[BaseBody EXCEPT !.Conversion.Ratio = 1],
     [BaseBody EXCEPT !.Conversion.Ratio = 0]}

\* the bodies that callers hand to SaveConfig themselves
SaveBodies == {BaseBody, testConfig}

\* how RedisStore.SaveConfig may end: Marshal or the first Set fails, the
\* second Set (the timestamp) fails, or both Sets succeed
SaveOutcomes == {"set_main_failed", "set_timestamp_failed", "saved"}

NoPut == [none |-> TRUE]

\* a watchLoop that is not running
StoppedLoop == [pc |-> "off", sub |-> 0, newCfg |-> NoSnapshot]

\* a subscription that was not made; conf: its confirmation has arrived and
\* nobody has read it yet
NoSubscription == [st |-> "none", conf |-> FALSE, msgs |-> 0]

\* the value under config:main with the number of the save that wrote it
Saved(n, c) == [n |-> n, config |-> c]

\* NewRedisStore; the value under config:main is numbered by the saves that
\* wrote it (0 is the configuration saved before the model starts); s.pubsub
\* is nil (0) or the subscription made by the call of that watcher
InitWatch ==
    /\ cb = NewCircuitBreaker(DefaultCircuitBreakerConfig, 0)
    /\ InitBase
    /\ rw = IdleRewriter
    /\ ps = IdlePacketSession
    /\ bf = IdleWorker
    /\ store = [pc |-> "watch",
                main |-> Saved(0, BaseBody),
                puts |-> 0,
                published |-> 0,
                lastPut |-> NoPut,
                pubsub |-> 0,
                subs |-> [w \in Watchers |-> NoSubscription],
                loops |-> [w \in Watchers |-> StoppedLoop],
                reloadCh |-> <<>>,
                got |-> [w \in Watchers |-> <<>>],
                mainAtWatch |-> [w \in Watchers |-> 0],
                close |-> "open"]

\* RedisStore.WatchConfigChanges called by w, the right-hand side of its first
\* statement: s.client.Subscribe(ctx, ConfigChannel) makes a subscription of
\* its own, dials and sends SUBSCRIBE; its error is dropped, so the
\* subscription it returns may not have been made at the server. No lock is
\* held, and the field is not written yet.
Subscribe(w) ==
    /\ store.pc = "watch"
    /\ store.loops[w].pc = "off"
    /\ \E st \in {"on", "none"} :
          store' = [store EXCEPT
                       !.subs[w] = [st |-> st, conf |-> st = "on", msgs |-> 0],
                       !.loops[w].pc = "made"]
    /\ UNCHANGED <<now, cb, callers, cbHist, poolVars, rw, ps, bf>>

\* the assignment of that statement: s.pubsub = <the subscription of w>,
\* without a lock, so the field holds the subscription stored last, which
\* need not be the one made last
StorePubsub(w) ==
    /\ store.pc = "watch"
    /\ store.loops[w].pc = "made"
    /\ store' = [store EXCEPT !.pubsub = w, !.loops[w].pc = "subscribed"]
    /\ UNCHANGED <<now, cb, callers, cbHist, poolVars, rw, ps, bf>>

\* a subscription that was not made at the server and on which w waits, in
\* Receive or in the channel of its watchLoop: the wait dials again and
\* subscribes, while the client is open
Resubscribe(w) ==
    /\ store.pc = "watch"
    /\ store.loops[w].pc \in {"confirm", "wait"}
    /\ store.close # "returned"
    /\ LET sb == store.loops[w].sub IN
       /\ store.subs[sb].st = "none"
       /\ store' = [store EXCEPT !.subs[sb] = [st |-> "on", conf |-> TRUE, msgs |-> 0]]
    /\ UNCHANGED <<now, cb, callers, cbHist, poolVars, rw, ps, bf>>

\* WatchConfigChanges of w calls s.pubsub.Receive(ctx): the field is read
\* again, without a lock, and the subscription found there, the caller's own
\* or the one another call has stored since, is the receiver of the call from
\* here on
ReceiveCall(w) ==
    /\ store.pc = "watch"
    /\ store.loops[w].pc = "subscribed"
    /\ store' = [store EXCEPT !.loops[w].pc = "confirm", !.loops[w].sub = store.pubsub]
    /\ UNCHANGED <<now, cb, callers, cbHist, poolVars, rw, ps, bf>>

\* Receive returns to w with the first thing that arrives on its receiver,
\* the confirmation or, when that was read before, the next message, which is
\* then lost to the loops; or it returns the error of the context or of the
\* connection. Without error the caller starts a watchLoop and is given
\* s.reloadCh.
SubscribeReceive(w) ==
    /\ store.pc = "watch"
    /\ store.loops[w].pc = "confirm"
    /\ LET sb == store.loops[w].sub IN
       \/ /\ store.subs[sb].st = "on"
          /\ store.subs[sb].conf \/ store.subs[sb].msgs > 0
          /\ store' = [store EXCEPT
                          !.subs[sb] = IF @.conf THEN [@ EXCEPT !.conf = FALSE]
                                       ELSE [@ EXCEPT !.msgs = @ - 1],
                          !.loops[w] = [StoppedLoop EXCEPT !.pc = "start"],
                          !.mainAtWatch[w] = store.main.n]
       \/ store' = [store EXCEPT !.loops[w] = [StoppedLoop EXCEPT !.pc = "failed"]]
    /\ UNCHANGED <<now, cb, callers, cbHist, poolVars, rw, ps, bf>>

\* watchLoop of w begins: ch := s.pubsub.Channel() reads the field without a
\* lock, so it is the channel of the subscription stored last
watchLoopStart(w) ==
    /\ store.pc = "watch"
    /\ store.loops[w].pc = "start"
    /\ store' = [store EXCEPT !.loops[w].pc = "wait", !.loops[w].sub = store.pubsub]
    /\ UNCHANGED <<now, cb, callers, cbHist, poolVars, rw, ps, bf>>

\* RedisStore.SaveConfig: Marshal, Set config:main, Set config:timestamp
SaveConfig(st, c, outcome) ==
    [st EXCEPT !.puts = @ + 1,
               !.main = IF outcome # "set_main_failed" THEN Saved(st.puts + 1, c) ELSE @]

\* Server.handleUpdateConfig on body c: Validate, then SaveConfig
PutConfig(c, outcome) ==
    /\ store.pc = "watch"
    /\ store.puts < MaxReloads
    /\ Validate(c) \/ outcome = "saved"
    /\ LET accepted == Validate(c)
           after == IF accepted THEN SaveConfig(store, c, outcome)
                    ELSE [store EXCEPT !.puts = @ + 1] IN
       store' = [after EXCEPT
                    !.lastPut = [op |-> "handleUpdateConfig",
                                 config |-> c,
                                 accepted |-> accepted,
                                 err |-> ~accepted \/ outcome # "saved",
                                 before |-> store.main.n,
                                 after |-> after.main.n]]
    /\ UNCHANGED <<now, cb, callers, cbHist, poolVars, rw, ps, bf>>

\* SaveConfig called on the store itself (the start-up of the API, the
\* tests): nothing validates the configuration
SaveConfigCall(c, outcome) ==
    /\ store.pc = "watch"
    /\ store.puts < MaxReloads
    /\ LET after == SaveConfig(store, c, outcome) IN
       store' = [after EXCEPT
                    !.lastPut = [op |-> "SaveConfig",
                                 config |-> c,
                                 accepted |-> TRUE,
                                 err |-> outcome # "saved",
                                 before |-> store.main.n,
                                 after |-> after.main.n]]
    /\ UNCHANGED <<now, cb, callers, cbHist, poolVars, rw, ps, bf>>

\* Server.handleReloadConfig: PublishReload; every subscription of the moment
\* gets the message
PublishReload ==
    /\ store.pc = "watch"
    /\ store.published < MaxReloads
    /\ store' = [store EXCEPT
                    !.published = @ + 1,
                    !.subs = [w \in Watchers |->
                                 IF store.subs[w].st = "on"
                                 THEN [store.subs[w] EXCEPT !.msgs = @ + 1]
                                 ELSE store.subs[w]]]
    /\ UNCHANGED <<now, cb, callers, cbHist, poolVars, rw, ps, bf>>

\* watchLoop of w: a message arrives on its channel and LoadConfig reads
\* config:main; when LoadConfig fails (always on a client that Close has
\* closed) the loop goes round without sending, and so it does on the nil
\* message of a channel that was closed. The channel of a subscription passes
\* on messages only: a confirmation nobody has read yet is taken and dropped.
watchLoopLoad(w) ==
    /\ store.pc = "watch"
    /\ store.loops[w].pc = "wait"
    /\ LET sb == store.loops[w].sub IN
       IF store.subs[sb].msgs > 0
       THEN \E loaded \in BOOLEAN :
               /\ store.close = "returned" => ~loaded
               /\ store' = [store EXCEPT
                               !.subs[sb].msgs = @ - 1,
                               !.loops[w] = IF loaded
                                            THEN [@ EXCEPT !.pc = "loaded",
                                                           !.newCfg = store.main]
                                            ELSE @]
       ELSE /\ store.subs[sb].st = "closed" \/ store.subs[sb].conf
            /\ store' = [store EXCEPT !.subs[sb].conf = FALSE]
    /\ UNCHANGED <<now, cb, callers, cbHist, poolVars, rw, ps, bf>>

\* close(s.reloadCh) has run
ReloadChClosed == store.close \in {"reloadCh", "returned"}

\* watchLoop of w: the non-blocking send of what it loaded to s.reloadCh; a
\* send on the closed channel panics, also inside a select with a default
watchLoopSend(w) ==
    /\ store.pc = "watch"
    /\ store.loops[w].pc = "loaded"
    /\ store' = IF ReloadChClosed
                THEN [store EXCEPT !.pc = "panicked"]
                ELSE [store EXCEPT
                         !.loops[w].pc = "wait",
                         !.loops[w].newCfg = NoSnapshot,
                         !.reloadCh = IF Len(@) < ReloadChCap
                                      THEN Append(@, store.loops[w].newCfg) ELSE @]
    /\ UNCHANGED <<now, cb, callers, cbHist, poolVars, rw, ps, bf>>

\* watchLoop of w, the two returns of its select: the context its caller
\* passed to WatchConfigChanges is done (cancelled or timed out, which may
\* happen at any time, the store open or not), or s.closeCh is closed
watchLoopStop(w) ==
    /\ store.pc = "watch"
    /\ store.loops[w].pc = "wait"
    /\ \E case \in {"ctx.Done", "closeCh"} :
          /\ case = "closeCh" => store.close # "open"
          /\ store' = [store EXCEPT !.loops[w].pc = "returned"]
    /\ UNCHANGED <<now, cb, callers, cbHist, poolVars, rw, ps, bf>>

\* the caller w of WatchConfigChanges receives from the channel it was given
Receive(w) ==
    /\ store.pc = "watch"
    /\ store.loops[w].pc \notin {"off", "made", "subscribed", "confirm", "failed"}
    /\ store.reloadCh # <<>>
    /\ store' = [store EXCEPT !.reloadCh = Tail(@),
                               !.got[w] = Append(@, store.reloadCh[1])]
    /\ UNCHANGED <<now, cb, callers, cbHist, poolVars, rw, ps, bf>>

\* the watchers beside the PUT handler and a caller of SaveConfig who saves
\* the configuration of TestWatchConfigChanges
NextWatch ==
    \/ \E w \in Watchers : Subscribe(w)
    \/ \E w \in Watchers : StorePubsub(w)
    \/ \E w \in Watchers : Resubscribe(w)
    \/ \E w \in Watchers : ReceiveCall(w)
    \/ \E w \in Watchers : SubscribeReceive(w)
    \/ \E w \in Watchers : watchLoopStart(w)
    \/ \E w \in Watchers : watchLoopStop(w)
    \/ \E c \in WatchBodies, o \in SaveOutcomes : PutConfig(c, o)
    \/ \E o \in SaveOutcomes : SaveConfigCall(testConfig, o)
    \/ PublishReload
    \/ \E w \in Watchers : watchLoopLoad(w)
    \/ \E w \in Watchers : watchLoopSend(w)
    \/ \E w \in Watchers : Receive(w)

SpecWatch == InitWatch /\ [][NextWatch]_vars

\* the saves alone, over every body a client may PUT
NextPut ==
    \/ \E c \in Candidates, o \in SaveOutcomes : PutConfig(c, o)
    \/ \E c \in SaveBodies, o \in SaveOutcomes : SaveConfigCall(c, o)

SpecPut == InitWatch /\ [][NextPut]_vars

\* w called WatchConfigChanges and was given the channel
Watching(w) == store.loops[w].pc \notin {"off", "made", "subscribed", "confirm", "failed"}

\* nothing is on its way to any subscriber
Drained ==
    /\ store.reloadCh = <<>>
    /\ \A w \in Watchers :
          \/ store.loops[w].pc \in {"off", "made", "subscribed", "confirm", "failed", "returned"}
          \/ store.loops[w].pc = "wait" /\ store.subs[store.loops[w].sub].msgs = 0

\* C21: when no delivery is under way and the channel is drained, a subscriber
\* that was watching while a configuration was installed has received
\* something, and the last thing it received is the configuration in Redis
C21_SubscriberEndsCurrent ==
    (store.pc = "watch" /\ Drained) =>
        \A w \in Watchers :
            (Watching(w) /\ store.main.n # store.mainAtWatch[w])
                => (store.got[w] # <<>> /\ Last(store.got[w]) = store.main)

\* C22: what a subscriber has received is in the order of the saves
C22_SubscriberMonotonic ==
    store.pc = "watch" =>
        \A w \in Watchers :
            \A i, j \in 1..Len(store.got[w]) :
                i < j => store.got[w][i].n <= store.got[w][j].n

\* C23: a SaveConfig that returned an error, called by handleUpdateConfig or
\* by anyone else, leaves under config:main what was there before the call
C23_FailedSaveChangesNothing ==
    (store.pc = "watch" /\ store.lastPut # NoPut) =>
        (store.lastPut.err => store.lastPut.after = store.lastPut.before)

\* the validity of section 3: positive ratio, precision and precision
\* overrides in [0,10], target columns distinct within a table, one of the
\* three rounding modes
SpecValid(c) ==
    /\ c.Conversion.Ratio > 0
    /\ c.Conversion.Precision \in 0..10
    /\ c.Conversion.RoundingStrategy \in {"BANKERS_ROUND", "ARITHMETIC_ROUND", "NO_ROUND"}
    /\ \A t \in DOMAIN c.Tables :
          LET cols == c.Tables[t].Columns IN
          /\ \A x \in DOMAIN cols : cols[x].Precision \in 0..10
          /\ \A x, y \in DOMAIN cols :
                x # y => cols[x].TargetColumn # cols[y].TargetColumn

\* C24: the update handler accepts a body exactly when it is valid in the
\* sense of section 3, and a rejected body changes nothing in Redis
C24_InstallIffValid ==
    (store.pc = "watch" /\ store.lastPut # NoPut
        /\ store.lastPut.op = "handleUpdateConfig"
        /\ store.lastPut.config.Database.Host # "") =>
        /\ store.lastPut.accepted <=> SpecValid(store.lastPut.config)
        /\ ~store.lastPut.accepted => store.lastPut.after = store.lastPut.before

\* ---- backfill worker (internal/backfill) ---------------------------------
MaxBfRows == 2
MaxBatch == 2
MaxRetry == 2
NumStarters == 2
NumControllers == 2
MaxControlCalls == 2
MaxWrites == 1

\* the goroutines that call Worker.Start, and those that call Pause, Resume
\* or Stop (the API handlers, the signal handler of cmd/backfill)
Starters == 1..NumStarters
Controllers == 1..NumControllers

\* SQL NULL in the shadow column
BfNull == -1
\* RetryAttempts of the documented configuration
DefaultRetryAttempts == 3
\* the source values of the rows, and the conversion of the worker
BfValues == {1500, 2500}
BfConversion == [Ratio |-> 1000, Precision |-> 4, RoundingStrategy |-> "BANKERS_ROUND"]

\* ---- Progress ------------------------------------------------------------
NewProgress ==
    [status |-> "pending", tableName |-> "", totalRows |-> 0, completedRows |-> 0,
     errors |-> 0, started |-> FALSE, ended |-> FALSE]

ProgressStart(p, tableName) ==
    [p EXCEPT !.tableName = tableName, !.started = TRUE, !.status = "running"]

SetTotal(p, total) == [p EXCEPT !.totalRows = total]

\* IncrementCompleted that forgets the rows of the batch
IncrementCompleted_none(p, count) == p

IncrementCompleted(p, count) == [p EXCEPT !.completedRows = @ + count]

IncrementErrors(p) == [p EXCEPT !.errors = @ + 1]

Complete(p) == [p EXCEPT !.ended = TRUE, !.status = "completed"]

\* Progress.Fail, Progress.Pause, Progress.Resume: exported, called by nothing
\* in the worker; whoever holds the Progress of GetProgress may call them
ProgressFail(p) == [p EXCEPT !.ended = TRUE, !.status = "failed"]
ProgressPause(p) == [p EXCEPT !.status = "paused"]
ProgressResume(p) == [p EXCEPT !.status = "running"]

\* Worker.shouldRetry, on the progress after IncrementErrors
shouldRetry(p, retryAttempts) == p.errors < retryAttempts

\* a swap that does not compare
CompareAndSwap_blind(flag, old) == TRUE

\* atomic.Bool.CompareAndSwap(old, _) succeeds when the flag holds old
CompareAndSwap(flag, old) == flag = old

\* a loop that takes the pause signal and goes on
AfterPause_goOn == "select"

\* where the loop goes after a receive on pauseCh: it blocks on resumeCh
AfterPause == "wait_resume"

\* ---- the table and the worker --------------------------------------------
\* the tables: rows 1..n, each with a source value and a shadow value that is
\* NULL or the converted source value
BfTables ==
    UNION {{[i \in 1..n |->
                [value |-> f[i][1],
                 idn |-> IF f[i][2] THEN BfNull ELSE ConvertIDRtoIDN(f[i][1], BfConversion)]]
            : f \in [1..n -> BfValues \X BOOLEAN]}
           : n \in 0..MaxBfRows}

\* the tables none of whose rows has a shadow value yet
BfFreshTables ==
    {[i \in 1..n |-> [value |-> 1500, idn |-> BfNull]] : n \in 0..MaxBfRows}

\* the ids of the rows WHERE <target> IS NULL
PendingRows(rows) == {i \in DOMAIN rows : rows[i].idn = BfNull}

\* the elements of a set of integers in ascending order
Ascending(S) ==
    [i \in 1..Cardinality(S) |-> CHOOSE x \in S : Cardinality({y \in S : y < x}) = i - 1]

IdleStart == [pc |-> "idle", err |-> "", exit |-> "", sel |-> <<>>, idx |-> 0, processed |-> 0]
IdleCall == [pc |-> "idle", op |-> "", err |-> ""]

\* Start has returned err; exit names the return statement
ReturnedStart(err, exit) == [IdleStart EXCEPT !.pc = "returned", !.err = err, !.exit = exit]
\* Start is at a return statement behind its defer: w.running.Store(false)
\* has yet to run
ReturningStart(err, exit) == [IdleStart EXCEPT !.pc = "defer", !.err = err, !.exit = exit]
ReturnedCall(op, err) == [pc |-> "returned", op |-> op, err |-> err]

\* NewWorker on one of the tables; retries are the configured RetryAttempts, failing
\* tells whether the UPDATE of some row may fail; ctx is the context that is
\* handed to Start, "live" or "done"
InitWorker(tables, retries, failing) ==
    /\ cb = NewCircuitBreaker(DefaultCircuitBreakerConfig, 0)
    /\ InitBase
    /\ rw = IdleRewriter
    /\ store = IdleStore
    /\ ps = IdlePacketSession
    /\ \E t \in tables, b \in 1..MaxBatch, r \in retries :
         \E bad \in {x \in SUBSET DOMAIN t : Cardinality(x) <= (IF failing THEN 1 ELSE 0)} :
            bf = [pc |-> "backfill",
                  batchSize |-> b,
                  retryAttempts |-> r,
                  rows |-> t,
                  bad |-> bad,
                  running |-> FALSE,
                  paused |-> FALSE,
                  ctx |-> "live",
                  progress |-> NewProgress,
                  st |-> [s \in Starters |-> IdleStart],
                  ctl |-> [c \in Controllers |-> IdleCall],
                  calls |-> 0,
                  writes |-> 0,
                  held |-> FALSE,
                  n0 |-> Cardinality(PendingRows(t))]

BfFrame == UNCHANGED <<now, cb, callers, cbHist, poolVars, rw, store, ps>>

\* Worker.Start up to the count: the CompareAndSwap on running, after which
\* running.Store(false) is deferred, and progress.Start
StartCall(s) ==
    /\ bf.pc = "backfill"
    /\ bf.st[s].pc = "idle"
    /\ IF ~CompareAndSwap(bf.running, FALSE)
       THEN bf' = [bf EXCEPT !.st[s] = ReturnedStart("worker already running", "cas")]
       ELSE bf' = [bf EXCEPT !.running = TRUE,
                             !.progress = ProgressStart(@, "orders"),
                             !.st[s].pc = "count"]
    /\ BfFrame

\* Worker.countPendingRows and what Start does with the count; under a
\* context that is done QueryRowContext returns the context's error
countPendingRows(s) ==
    /\ bf.pc = "backfill"
    /\ bf.st[s].pc = "count"
    /\ LET totalRows == Cardinality(PendingRows(bf.rows)) IN
       IF bf.ctx = "done"
       THEN bf' = [bf EXCEPT !.st[s] = ReturningStart("failed to count rows", "count")]
       ELSE IF totalRows = 0
       THEN bf' = [bf EXCEPT !.progress = Complete(SetTotal(@, totalRows)),
                             !.st[s] = ReturningStart("nil", "nothing")]
       ELSE bf' = [bf EXCEPT !.progress = SetTotal(@, totalRows),
                             !.st[s].pc = "select"]
    /\ BfFrame

\* the select of the loop takes a ready case, and default when none is
StopSenders == {c \in Controllers : bf.ctl[c].pc = "send_stop"}
PauseSenders == {c \in Controllers : bf.ctl[c].pc = "send_pause"}
ResumeSenders == {c \in Controllers : bf.ctl[c].pc = "send_resume"}

\* case <-ctx.Done(): return ctx.Err(). The select takes any of its ready
\* cases, so a done context competes with a waiting Stop or Pause
ReceiveDone(s) ==
    /\ bf.pc = "backfill"
    /\ bf.st[s].pc = "select"
    /\ bf.ctx = "done"
    /\ bf' = [bf EXCEPT !.st[s] = ReturningStart("context canceled", "ctx")]
    /\ BfFrame

\* case <-w.stopCh: return nil. The receive lets the sender's Stop return;
\* the job's goroutine has its deferred store still to run
ReceiveStop(s, c) ==
    /\ bf.pc = "backfill"
    /\ bf.st[s].pc = "select"
    /\ c \in StopSenders
    /\ bf' = [bf EXCEPT !.ctl[c] = ReturnedCall("Stop", "nil"),
                        !.st[s] = ReturningStart("nil", "stop")]
    /\ BfFrame

\* the deferred w.running.Store(false), and Start returns to its caller
StartReturn(s) ==
    /\ bf.pc = "backfill"
    /\ bf.st[s].pc = "defer"
    /\ bf' = [bf EXCEPT !.running = FALSE,
                        !.st[s] = ReturnedStart(bf.st[s].err, bf.st[s].exit)]
    /\ BfFrame

\* case <-w.pauseCh: the sender's Pause returns
ReceivePause(s, c) ==
    /\ bf.pc = "backfill"
    /\ bf.st[s].pc = "select"
    /\ c \in PauseSenders
    /\ bf' = [bf EXCEPT !.ctl[c] = ReturnedCall("Pause", "nil"),
                        !.st[s].pc = AfterPause,
                        !.held = (ResumeSenders = {})]
    /\ BfFrame

\* <-w.resumeCh
ReceiveResume(s, c) ==
    /\ bf.pc = "backfill"
    /\ bf.st[s].pc = "wait_resume"
    /\ c \in ResumeSenders
    /\ bf' = [bf EXCEPT !.ctl[c] = ReturnedCall("Resume", "nil"),
                        !.st[s].pc = "select"]
    /\ BfFrame

\* default, taken when no case of the select is ready: processBatch runs its
\* SELECT ... WHERE <target> IS NULL LIMIT batchSize; the statement has no
\* ORDER BY, so any batchSize pending rows may come back. A context that is
\* done only after the select fails the batch at its next use in processBatch
\* (UpdateRow, BatchEnd), which Start cannot tell from a failed QueryContext.
SelectBatch(s) ==
    /\ bf.pc = "backfill"
    /\ bf.st[s].pc = "select"
    /\ StopSenders = {} /\ PauseSenders = {} /\ bf.ctx = "live"
    /\ LET pending == PendingRows(bf.rows)
           k == IF Cardinality(pending) < bf.batchSize THEN Cardinality(pending)
                ELSE bf.batchSize
       IN \E S \in {x \in SUBSET pending : Cardinality(x) = k} :
            bf' = [bf EXCEPT !.st[s] =
                      [IdleStart EXCEPT
                          !.pc = "batch",
                          !.sel = [i \in 1..k |->
                                      [id |-> Ascending(S)[i],
                                       value |-> bf.rows[Ascending(S)[i]].value]],
                          !.idx = 1]]
    /\ BfFrame

\* the error path of Start after processBatch returned an error:
\* IncrementErrors, then another turn of the loop or the return
BatchFailed(b, s) ==
    LET failed == IncrementErrors(b.progress) IN
    IF shouldRetry(failed, b.retryAttempts)
    THEN [b EXCEPT !.progress = failed,
                   !.st[s] = [IdleStart EXCEPT !.pc = "select"]]
    ELSE [b EXCEPT !.progress = failed,
                   !.st[s] = ReturningStart("batch processing failed", "error")]

\* one turn of the rows.Next loop of processBatch: the UPDATE of the row, and
\* when it fails (a row that cannot be updated, a context that is done) the
\* error path of Start
UpdateRow(s) ==
    /\ bf.pc = "backfill"
    /\ bf.st[s].pc = "batch"
    /\ bf.st[s].idx <= Len(bf.st[s].sel)
    /\ LET row == bf.st[s].sel[bf.st[s].idx]
           convertedValue == ConvertIDRtoIDN(row.value, BfConversion)
       IN IF row.id \in bf.bad \/ bf.ctx = "done"
          THEN bf' = BatchFailed(bf, s)
          ELSE bf' = [bf EXCEPT !.rows[row.id].idn = convertedValue,
                                !.st[s].idx = @ + 1,
                                !.st[s].processed = @ + 1]
    /\ BfFrame

\* rows.Next returns false and processBatch returns processed and rows.Err():
\* nil, or, when the context is done by then, the context's error or nil
\* (the rows are closed on cancellation by a goroutine of their own)
BatchEnd(s) ==
    /\ bf.pc = "backfill"
    /\ bf.st[s].pc = "batch"
    /\ bf.st[s].idx > Len(bf.st[s].sel)
    /\ \E err \in IF bf.ctx = "done" THEN {"nil", "context canceled"} ELSE {"nil"} :
          IF err # "nil"
          THEN bf' = BatchFailed(bf, s)
          ELSE IF bf.st[s].processed = 0
          THEN bf' = [bf EXCEPT !.progress = Complete(@),
                                !.st[s] = ReturningStart("nil", "complete")]
          ELSE bf' = [bf EXCEPT !.progress = IncrementCompleted(@, bf.st[s].processed),
                                !.st[s] = [IdleStart EXCEPT !.pc = "select"]]
    /\ BfFrame

\* a controller is free to make a call
FreeCall(c) ==
    /\ bf.pc = "backfill"
    /\ bf.ctl[c].pc \in {"idle", "returned"}
    /\ bf.calls < MaxControlCalls

\* Worker.Pause up to its send on pauseCh
PauseCall(c) ==
    /\ FreeCall(c)
    /\ IF ~bf.running
       THEN bf' = [bf EXCEPT !.ctl[c] = ReturnedCall("Pause", "worker not running"),
                             !.calls = @ + 1]
       ELSE IF CompareAndSwap(bf.paused, FALSE)
       THEN bf' = [bf EXCEPT !.paused = TRUE,
                             !.ctl[c] = [pc |-> "send_pause", op |-> "Pause", err |-> ""],
                             !.calls = @ + 1]
       ELSE bf' = [bf EXCEPT !.ctl[c] = ReturnedCall("Pause", "worker already paused"),
                             !.calls = @ + 1]
    /\ BfFrame

\* Worker.Resume up to its send on resumeCh
ResumeCall(c) ==
    /\ FreeCall(c)
    /\ IF ~bf.running
       THEN bf' = [bf EXCEPT !.ctl[c] = ReturnedCall("Resume", "worker not running"),
                             !.calls = @ + 1]
       ELSE IF CompareAndSwap(bf.paused, TRUE)
       THEN bf' = [bf EXCEPT !.paused = FALSE,
                             !.ctl[c] = [pc |-> "send_resume", op |-> "Resume", err |-> ""],
                             !.held = FALSE,
                             !.calls = @ + 1]
       ELSE bf' = [bf EXCEPT !.ctl[c] = ReturnedCall("Resume", "worker not paused"),
                             !.calls = @ + 1]
    /\ BfFrame

\* Worker.Stop up to its send on stopCh
StopCall(c) ==
    /\ FreeCall(c)
    /\ IF bf.running
       THEN bf' = [bf EXCEPT !.ctl[c] = [pc |-> "send_stop", op |-> "Stop", err |-> ""],
                             !.calls = @ + 1]
       ELSE bf' = [bf EXCEPT !.ctl[c] = ReturnedCall("Stop", "nil"),
                             !.calls = @ + 1]
    /\ BfFrame

\* a caller that holds the Progress of Worker.GetProgress calls one of the
\* exported methods that write its status; the method returns nothing and
\* never blocks, so the caller's position is the same before and after
ProgressCall(c) ==
    /\ FreeCall(c)
    /\ \E op \in {"Progress.Fail", "Progress.Pause", "Progress.Resume"} :
          bf' = [bf EXCEPT !.progress = IF op = "Progress.Fail" THEN ProgressFail(@)
                                        ELSE IF op = "Progress.Pause" THEN ProgressPause(@)
                                        ELSE ProgressResume(@),
                           !.calls = @ + 1]
    /\ BfFrame

\* the context of the job is cancelled: cancel() of cmd/backfill, which its
\* signal handler calls after worker.Stop() has returned
cancel(c) ==
    /\ FreeCall(c)
    /\ bf.ctx = "live"
    /\ bf' = [bf EXCEPT !.ctx = "done", !.calls = @ + 1]
    /\ BfFrame

\* a proxy session runs UPDATE <table> SET <source> = v WHERE id = i, which
\* the rewriter turns into a write of the source and of the shadow column
ProxyWrite(i, v) ==
    /\ bf.pc = "backfill"
    /\ bf.writes < MaxWrites
    /\ i \in DOMAIN bf.rows
    /\ bf' = [bf EXCEPT !.rows[i] = [value |-> v, idn |-> ConvertIDRtoIDN(v, BfConversion)],
                        !.writes = @ + 1]
    /\ BfFrame

\* the steps of the goroutine running Start
WorkerStep(s) ==
    \/ countPendingRows(s)
    \/ SelectBatch(s)
    \/ UpdateRow(s)
    \/ BatchEnd(s)
    \/ StartReturn(s)

\* a job with nothing else around: Start calls and the worker; the goroutine
\* in Start is scheduled as long as it can run
NextWorker(who) ==
    \/ \E s \in who : StartCall(s)
    \/ \E s \in who : countPendingRows(s)
    \/ \E s \in who : SelectBatch(s)
    \/ \E s \in who : UpdateRow(s)
    \/ \E s \in who : BatchEnd(s)
    \/ \E s \in who : StartReturn(s)

NextQuiet == NextWorker(Starters)

SpecQuiet ==
    /\ InitWorker(BfTables, {DefaultRetryAttempts}, FALSE)
    /\ [][NextQuiet]_vars
    /\ WF_vars(\E s \in Starters : WorkerStep(s))

\* one job, the callers of Pause, Resume and Stop, and the cancellation of
\* the job's context
NextControl ==
    \/ NextWorker({1})
    \/ ReceiveDone(1)
    \/ \E c \in Controllers : ReceiveStop(1, c)
    \/ \E c \in Controllers : ReceivePause(1, c)
    \/ \E c \in Controllers : ReceiveResume(1, c)
    \/ \E c \in Controllers : PauseCall(c)
    \/ \E c \in Controllers : ResumeCall(c)
    \/ \E c \in Controllers : StopCall(c)
    \/ \E c \in Controllers : ProgressCall(c)
    \/ \E c \in Controllers : cancel(c)

SpecControl == InitWorker(BfFreshTables, {DefaultRetryAttempts}, FALSE) /\ [][NextControl]_vars

\* a job, failing updates, and a proxy session writing to the table
NextBackfill ==
    \/ NextQuiet
    \/ \E i \in 1..MaxBfRows, v \in BfValues : ProxyWrite(i, v)

SpecBackfill == InitWorker(BfTables, 0..MaxRetry, TRUE) /\ [][NextBackfill]_vars

\* ---- claims on the backfill worker --------------------------------------
\* a call of Start is past its CompareAndSwap and has not returned
ActiveStart(s) == bf.st[s].pc \in {"count", "select", "batch", "wait_resume", "defer"}

\* the job is over and everything is accounted for
AllRowsCompleted ==
    /\ bf.pc = "backfill"
    /\ ~bf.running
    /\ \E s \in Starters : bf.st[s].pc = "returned" /\ bf.st[s].err = "nil"
    /\ bf.progress.status = "completed"
    /\ bf.progress.ended
    /\ bf.progress.completedRows = bf.n0
    /\ bf.progress.errors = 0
    /\ PendingRows(bf.rows) = {}

C30_OneJobAtATime ==
    [][bf.pc = "backfill" =>
        /\ Cardinality({s \in Starters : ActiveStart(s)'}) <= 1
        /\ \A s, o \in Starters :
              (s # o /\ ActiveStart(o) /\ bf.st[s].pc = "idle" /\ bf'.st[s].pc # "idle") =>
                  /\ bf'.st[s].pc = "returned"
                  /\ bf'.st[s].err = "worker already running"
                  /\ bf'.progress = bf.progress
                  /\ bf'.rows = bf.rows
                  /\ bf'.st[o] = bf.st[o]
                  /\ bf'.running]_vars

\* a Start was turned away while a job with rows already counted is running
C30_Witness ==
    /\ bf.pc = "backfill"
    /\ \E s, o \in Starters :
          /\ bf.st[s].exit = "cas"
          /\ ActiveStart(o)
          /\ bf.progress.completedRows > 0

\* the worker runs the SELECT of a batch, or the UPDATE of a row, in this step
Selected(s) == bf.st[s].pc = "select" /\ bf'.st[s].pc = "batch"
Updated(s) == bf.st[s].pc = "batch" /\ bf'.st[s].processed = bf.st[s].processed + 1

\* C28: from the return of a Pause (with no Resume under way) until Resume is
\* called, the worker selects no batch and updates no row; the loop leaves
\* its wait only by a Resume, and then is back at the top of the loop with
\* the table and the progress as they were
C28_PauseHoldsTheLoop ==
    [][bf.pc = "backfill" =>
        \A s \in Starters :
            /\ bf.held => (~Selected(s) /\ ~Updated(s) /\ bf'.rows = bf.rows)
            /\ (bf.st[s].pc = "wait_resume" /\ bf'.st[s].pc # "wait_resume") =>
                  /\ ResumeSenders # {}
                  /\ bf'.st[s].pc = "select"
                  /\ bf'.rows = bf.rows
                  /\ bf'.progress = bf.progress]_vars

\* Pause has returned in the middle of a job, and the loop waits
C28_Witness ==
    /\ bf.pc = "backfill"
    /\ bf.held
    /\ \E s \in Starters : bf.st[s].pc = "wait_resume"
    /\ bf.progress.completedRows > 0
    /\ PendingRows(bf.rows) # {}

\* C27: when Start has returned on a Stop with some rows done and others
\* left, it returned nil and the status of the snapshot is paused
C27_StopReportsPaused ==
    (bf.pc = "backfill" /\ bf.progress.completedRows > 0 /\ PendingRows(bf.rows) # {}) =>
        \A s \in Starters :
            (bf.st[s].pc = "returned" /\ bf.st[s].exit = "stop") =>
                (bf.st[s].err = "nil" /\ bf.progress.status = "paused")

\* C26: the UPDATE of the backfill leaves a row alone whose shadow column is
\* not NULL when the UPDATE runs
C26_FillsOnlyUnset ==
    [][bf.pc = "backfill" =>
        \A s \in Starters :
            Updated(s) =>
                LET id == bf.st[s].sel[bf.st[s].idx].id IN
                bf.rows[id].idn # BfNull => bf'.rows[id] = bf.rows[id]]_vars

\* C29: a row whose UPDATE keeps failing does not end the job: when Start
\* has returned, it returned nil, no more errors were counted than
\* retryAttempts allows for, and every other row has its shadow value
C29_FailingRowIsSkipped ==
    bf.pc = "backfill" =>
        \A s \in Starters :
            (bf.st[s].pc = "returned" /\ bf.st[s].exit # "cas") =>
                /\ bf.st[s].err = "nil"
                /\ PendingRows(bf.rows) \subseteq bf.bad

\* ---- claims on the counters of the breaker ------------------------------
\* the calls admitted by beforeRequest whose afterRequest has not run yet
DialsInFlight == Cardinality({c \in Callers : InFlight(c)})

\* C31: the requests counted by the breaker are the successes, the failures,
\* the rejections and the calls admitted and not yet finished
C31_CountersAddUp ==
    cb.totalRequests =
        cb.totalSuccesses + cb.totalFailures + cb.totalRejections + DialsInFlight

\* calls have failed, a call has been rejected and two calls are in flight
C31_Witness ==
    /\ cb.totalFailures > 0
    /\ cb.totalRejections > 0
    /\ DialsInFlight >= 2

\* ---- packet framing (pkg/protocol ReadPacket, WritePacket) ---------------
MaxWritten == 2

\* the largest payload WritePacket accepts
MaxPayloadLength == 16777215

\* bytes are kept run-length encoded: a sequence of runs of n > 0 equal bytes
\* b, no two neighbours with the same byte, so that equal byte strings are
\* equal values and a payload of 2^24 - 1 bytes is a small value
Run(b, n) == [b |-> b, n |-> n]

AppendRun(bytes, r) ==
    IF r.n = 0 THEN bytes
    ELSE IF bytes # <<>> /\ bytes[Len(bytes)].b = r.b
    THEN [bytes EXCEPT ![Len(bytes)].n = @ + r.n]
    ELSE Append(bytes, r)

RECURSIVE Concat(_, _)
Concat(bytes, more) ==
    IF more = <<>> THEN bytes ELSE Concat(AppendRun(bytes, Head(more)), Tail(more))

RECURSIVE ByteLen(_)
ByteLen(bytes) == IF bytes = <<>> THEN 0 ELSE Head(bytes).n + ByteLen(Tail(bytes))

\* the first k bytes, and what follows them (k <= ByteLen(bytes))
RECURSIVE TakeBytes(_, _)
TakeBytes(bytes, k) ==
    IF k = 0 THEN <<>>
    ELSE IF Head(bytes).n <= k
    THEN <<Head(bytes)>> \o TakeBytes(Tail(bytes), k - Head(bytes).n)
    ELSE <<Run(Head(bytes).b, k)>>

RECURSIVE DropBytes(_, _)
DropBytes(bytes, k) ==
    IF k = 0 THEN bytes
    ELSE IF Head(bytes).n <= k THEN DropBytes(Tail(bytes), k - Head(bytes).n)
    ELSE <<Run(Head(bytes).b, Head(bytes).n - k)>> \o Tail(bytes)

\* the i-th byte (1 <= i <= ByteLen(bytes))
RECURSIVE ByteAt(_, _)
ByteAt(bytes, i) ==
    IF i <= Head(bytes).n THEN Head(bytes).b ELSE ByteAt(Tail(bytes), i - Head(bytes).n)

\* byte(x) of Go: the low eight bits
LowByte(x) == x % 256

\* WritePacket: the header of a payload of that length
PacketHeader(sequenceID, length) ==
    <<LowByte(length), LowByte(length \div 256), LowByte(length \div 65536), sequenceID>>

\* a reader that takes the length from the first two header bytes
HeaderLength_short(header) == header[1] + header[2] * 256

\* ReadPacket: the length in a header
HeaderLength(header) == header[1] + header[2] * 256 + header[3] * 65536

\* WritePacket: the four header bytes as they go on the wire
HeaderBytes(sequenceID, length) ==
    LET h == PacketHeader(sequenceID, length) IN
    Concat(<<>>, <<Run(h[1], 1), Run(h[2], 1), Run(h[3], 1), Run(h[4], 1)>>)

\* io.ReadFull has what it waits for: k bytes are there
CanReadFull(bytes, k) == ByteLen(bytes) >= k

\* io.ReadFull on a connection that ended before k bytes came: io.EOF when
\* nothing was read, io.ErrUnexpectedEOF otherwise
ReadFullError(bytes) == IF bytes = <<>> THEN "EOF" ELSE "unexpected EOF"

\* what a Write that returns an error puts on the wire before the connection
\* fails under it: nothing, or all but the last byte; on a connection that
\* has ended already, nothing
FailedWrite(bytes, dropped) ==
    {<<>>} \cup (IF bytes = <<>> \/ dropped THEN {}
                 ELSE {TakeBytes(bytes, ByteLen(bytes) - 1)})

\* the payloads written: empty, short, and at the edges of each length byte
FramePayloads ==
    {<<>>,
     <<Run(7, 1)>>,
     <<Run(1, 2), Run(2, 1)>>,
     <<Run(0, 255)>>,
     <<Run(255, 256)>>,
     <<Run(3, 65535), Run(0, 1)>>,
     <<Run(0, 65536), Run(9, 1)>>,
     <<Run(255, MaxPayloadLength)>>,
     <<Run(255, MaxPayloadLength), Run(1, 1)>>}
FrameSequenceIDs == {0, 1, 255}

NoHeader == <<0, 0, 0, 0>>
WriterIdle == [pc |-> "idle", SequenceID |-> 0, Payload |-> <<>>]
ReaderIdle == [pc |-> "header", header |-> NoHeader, err |-> "nil"]

\* one writer and one reader on a connection: wire holds the bytes written and
\* not yet read; sent are the packets whose header went out, written those
\* whose WritePacket returned nil, read those ReadPacket returned
InitFrames ==
    /\ cb = NewCircuitBreaker(DefaultCircuitBreakerConfig, 0)
    /\ InitBase
    /\ rw = IdleRewriter
    /\ store = IdleStore
    /\ bf = IdleWorker
    /\ ps = [pc |-> "frames", wire |-> <<>>, dropped |-> FALSE,
             wr |-> WriterIdle, rd |-> ReaderIdle, calls |-> 0,
             sent |-> <<>>, written |-> <<>>, read |-> <<>>,
             rejected |-> 0, failed |-> 0]

\* the connection ends (the peer or the network drops it): every later Write
\* fails, and a read finds the end after the bytes that are on the wire
ConnDrop ==
    /\ ps.pc = "frames"
    /\ ~ps.dropped
    /\ ps' = [ps EXCEPT !.dropped = TRUE]
    /\ UNCHANGED <<now, cb, callers, cbHist, poolVars, rw, store, bf>>

\* WritePacket up to its first Write: a payload that is too long is refused
\* with nothing written; w.Write(header) puts the header on the wire, or
\* fails and WritePacket returns its error
WritePacket(sequenceID, payload) ==
    /\ ps.pc = "frames"
    /\ ps.wr.pc = "idle"
    /\ ps.calls < MaxWritten
    /\ LET length == ByteLen(payload)
           header == HeaderBytes(sequenceID, length) IN
       IF length > MaxPayloadLength
       THEN ps' = [ps EXCEPT !.calls = @ + 1, !.rejected = @ + 1]
       ELSE \/ \E part \in FailedWrite(header, ps.dropped) :
                ps' = [ps EXCEPT !.calls = @ + 1, !.failed = @ + 1,
                                 !.dropped = TRUE,
                                 !.wire = Concat(@, part)]
            \/ /\ ~ps.dropped
               /\ ps' = [ps EXCEPT !.calls = @ + 1,
                                   !.wire = Concat(@, header),
                                   !.sent = Append(@, [SequenceID |-> sequenceID,
                                                       Payload |-> payload]),
                                   !.wr = [pc |-> "payload",
                                           SequenceID |-> sequenceID,
                                           Payload |-> payload]]
    /\ UNCHANGED <<now, cb, callers, cbHist, poolVars, rw, store, bf>>

\* WritePacket, its second Write: w.Write(payload) puts the payload on the
\* wire and WritePacket returns nil, or fails with the header left on the
\* wire and WritePacket returns the error
WritePayload ==
    /\ ps.pc = "frames"
    /\ ps.wr.pc = "payload"
    /\ \/ \E part \in FailedWrite(ps.wr.Payload, ps.dropped) :
             ps' = [ps EXCEPT !.wr = WriterIdle, !.failed = @ + 1,
                              !.dropped = TRUE,
                              !.wire = Concat(@, part)]
       \/ /\ ~ps.dropped
          /\ ps' = [ps EXCEPT !.wr = WriterIdle,
                              !.wire = Concat(@, ps.wr.Payload),
                              !.written = Append(@, [SequenceID |-> ps.wr.SequenceID,
                                                     Payload |-> ps.wr.Payload])]
    /\ UNCHANGED <<now, cb, callers, cbHist, poolVars, rw, store, bf>>

\* ReadPacket up to its first read: io.ReadFull takes the four header bytes
\* as soon as they are there; when the connection ended before them it takes
\* what there is and ReadPacket returns the error
ReadPacket ==
    /\ ps.pc = "frames"
    /\ ps.rd.pc = "header"
    /\ IF CanReadFull(ps.wire, 4)
       THEN ps' = [ps EXCEPT !.wire = DropBytes(@, 4),
                             !.rd = [pc |-> "payload",
                                     header |-> [i \in 1..4 |-> ByteAt(ps.wire, i)],
                                     err |-> "nil"]]
       ELSE /\ ps.dropped
            /\ ps' = [ps EXCEPT !.wire = <<>>,
                                !.rd = [pc |-> "failed", header |-> NoHeader,
                                        err |-> ReadFullError(ps.wire)]]
    /\ UNCHANGED <<now, cb, callers, cbHist, poolVars, rw, store, bf>>

\* ReadPacket, its second read: the length is taken from the header and
\* io.ReadFull takes that many bytes (at once when the length is 0); ReadPacket
\* returns the packet, or the error when the connection ended before
ReadPayload ==
    /\ ps.pc = "frames"
    /\ ps.rd.pc = "payload"
    /\ LET length == HeaderLength(ps.rd.header)
           sequenceID == ps.rd.header[4] IN
       IF CanReadFull(ps.wire, length)
       THEN ps' = [ps EXCEPT !.wire = DropBytes(@, length),
                             !.rd = ReaderIdle,
                             !.read = Append(@, [Length |-> length,
                                                 SequenceID |-> sequenceID,
                                                 Payload |-> TakeBytes(ps.wire, length)])]
       ELSE /\ ps.dropped
            /\ ps' = [ps EXCEPT !.wire = <<>>,
                                !.rd = [pc |-> "failed", header |-> NoHeader,
                                        err |-> ReadFullError(ps.wire)]]
    /\ UNCHANGED <<now, cb, callers, cbHist, poolVars, rw, store, bf>>

NextFrames ==
    \/ \E s \in FrameSequenceIDs, p \in FramePayloads : WritePacket(s, p)
    \/ WritePayload
    \/ ReadPacket
    \/ ReadPayload
    \/ ConnDrop

SpecFrames == InitFrames /\ [][NextFrames]_vars

\* the bytes of the packets of a sequence, one after the other
RECURSIVE PacketBytes(_)
PacketBytes(packets) ==
    IF packets = <<>> THEN <<>>
    ELSE Concat(Concat(HeaderBytes(Head(packets).SequenceID,
                                   ByteLen(Head(packets).Payload)),
                       Head(packets).Payload),
                PacketBytes(Tail(packets)))

\* C33: the packets read are the packets written, one by one and in order,
\* each with its sequence id and its payload, and each read consumes exactly
\* the bytes of its packet: between two reads the wire holds the bytes of the
\* packets written and not yet read, and nothing else
C33_FramingRoundTrip ==
    ps.pc = "frames" =>
        /\ Len(ps.read) <= Len(ps.sent)
        /\ \A i \in 1..Len(ps.read) :
              /\ ps.read[i].SequenceID = ps.sent[i].SequenceID
              /\ ps.read[i].Payload = ps.sent[i].Payload
              /\ ps.read[i].Length = ByteLen(ps.sent[i].Payload)
        /\ (ps.rd.pc = "header" /\ ps.wr.pc = "idle" /\ ps.failed = 0) =>
              /\ Len(ps.read) <= Len(ps.written)
              /\ ps.wire = PacketBytes(SubSeq(ps.written, Len(ps.read) + 1,
                                              Len(ps.written)))
        /\ ps.rd.pc = "failed" => ps.dropped

\* two packets written back to back, the first of the largest size, were
\* read back
C33_Witness ==
    /\ ps.pc = "frames"
    /\ Len(ps.read) = 2
    /\ ByteLen(ps.read[1].Payload) = MaxPayloadLength
    /\ ByteLen(ps.read[2].Payload) > 0
    /\ ps.wire = <<>>
    /\ ps.written = ps.sent
    /\ ~ps.dropped

\* the multiple of 10^-precision nearest to idrValue / ratio, ties to the
\* even one, times 10^precision: the exact quotient of |idrValue| * 10^p by
\* ratio, rounded half to even, with the sign
NearestEven(idrValue, ratio, precision) ==
    LET n == IF idrValue < 0 THEN -idrValue ELSE idrValue
        x == BigDivSmall(BigTimesPow10(BigOf(n), precision), ratio)
        q == BigToInt(x.q)
        k == IF 2 * x.r < ratio THEN q
             ELSE IF 2 * x.r > ratio THEN q + 1
             ELSE IF q % 2 = 0 THEN q ELSE q + 1
    IN IF idrValue < 0 THEN -k ELSE k

\* the conversions the engine is run on: amounts around the ties of small
\* and of large quotients, with both signs
ConversionSources ==
    {-131072045, -26007571, -25, -15, -5, -1, 0, 1, 5, 15, 25, 1235, 1245,
     26007571, 131072045}
ConversionRatios == {1, 10, 1000, 20000}

\* the result times 10^precision fits an int of the model
ConversionFits(s, r, p) ==
    BigBitLen(BigDivSmall(BigTimesPow10(BigOf(IF s < 0 THEN -s ELSE s), p), r).q) <= 29

InitRound ==
    /\ cb = NewCircuitBreaker(DefaultCircuitBreakerConfig, 0)
    /\ InitBase
    /\ store = IdleStore
    /\ ps = IdlePacketSession
    /\ bf = IdleWorker
    /\ \E s \in ConversionSources, r \in ConversionRatios, p \in 0..MaxPrecision :
          /\ ConversionFits(s, r, p)
          /\ rw = [pc |-> "convert", idrValue |-> s, ratio |-> r, precision |-> p,
                   result |-> 0]

\* NewEngine(BankersRound, precision).ConvertIDRtoIDN(idrValue, ratio)
Convert ==
    /\ rw.pc = "convert"
    /\ rw' = [rw EXCEPT !.pc = "converted",
                        !.result = ConvertIDRtoIDN(rw.idrValue,
                                       [Ratio |-> rw.ratio, Precision |-> rw.precision,
                                        RoundingStrategy |-> "BANKERS_ROUND"])]
    /\ UNCHANGED <<now, cb, callers, cbHist, poolVars, store, ps, bf>>

NextRound == Convert

SpecRound == InitRound /\ [][NextRound]_vars

\* C32: the conversion under BankersRound returns the multiple of
\* 10^-precision nearest to idrValue / ratio, and on a tie the one whose last
\* kept digit is even, whatever the sign
C32_BankersNearestEven ==
    rw.pc = "converted" =>
        rw.result = NearestEven(rw.idrValue, rw.ratio, rw.precision)


\* ======================= closing the pool =================================
\* The pool of SpecPool with the scheduling the runtime gives its goroutines:
\* the reaper and the goroutine inside Close are never starved.
SpecClose ==
    /\ Init
    /\ [][NextPool]_vars
    /\ WF_vars(ReaperTick)
    /\ WF_vars(ReaperDrain)
    /\ WF_vars(ReaperRefill)
    /\ WF_vars(CloseChan)
    /\ WF_vars(CloseDrain)

\* Close has returned
CloseReturned == closer = "done"
\* the reaper is in the drain loop of cleanupStaleConnections on the closed,
\* empty queue: every receive yields nil and the loop goes round again
ReaperSpins == reaper.pc = "drain" /\ chanClosed /\ connections = <<>>

\* C35: once Close has been called (with a ticker period still to come on the
\* pool's clock), Close returns, unless the process has panicked meanwhile
C35_CloseReturns == (closed /\ now < MaxPoolTime) ~> (CloseReturned \/ crashed)
\* the state the pool is left in: Close waits in wg.Wait() for a reaper that
\* spins in its drain loop
C35_Stuck == closer = "wait" /\ ReaperSpins /\ ~crashed


\* C37: Release, Acquire and the reaper running beside Close never panic: no
\* send on the closed idle queue, no use of the nil connection a receive on
\* the closed queue yields
C37_NoPanicOnClose == ~crashed


\* ======================= sessions on reused connections ===================
\* The backend of a connection speaks first exactly once, when the socket is
\* opened: it sends its handshake. ps.greeted holds the connections whose
\* handshake a session has read; the backend of such a connection is in its
\* command phase and sends nothing until it is sent a command.
InitReuse ==
    /\ cb = NewCircuitBreaker(DefaultCircuitBreakerConfig, 0)
    /\ InitBase
    /\ rw = IdleRewriter
    /\ store = IdleStore
    /\ bf = IdleWorker
    /\ ps = [pc |-> "backends", greeted |-> {}]

\* the backend's handshake is waiting on the socket of connection c
HandshakeWaiting(c) == c \notin ps.greeted

\* Handle, step 2 and 3 with a backend and a client that answer: ReadPacket
\* returns the backend's handshake, it is written to the client, the client's
\* response is read and written to the backend
HandshakeRelay(s) ==
    /\ ~crashed
    /\ sess[s].pc = "handshake"
    /\ HandshakeWaiting(sess[s].conn)
    /\ ps' = [ps EXCEPT !.greeted = @ \cup {sess[s].conn}]
    /\ clientOut' = [clientOut EXCEPT ![s] = Append(@, "HANDSHAKE")]
    /\ sess' = [sess EXCEPT ![s].pc = "auth"]
    /\ UNCHANGED <<now, cb, callers, cbHist, conn, connections, chanClosed, closed,
                   connCounter, reaper, closer, crashed, relInTx, rw, store, bf>>

\* the socket of connection c is dead (its backend dropped it): reads and
\* writes on it fail, and so does the read of IsHealthy
DropConn(cn, c) == [cn EXCEPT ![c].status = "dropped"]

\* Handle, step 2 and 3 failing at one of its four returns. The read of the
\* backend's handshake fails when the backend has dropped the socket, whether
\* the handshake was read before or not. The three later returns come after
\* that read took the handshake: the write to the client fails; or the
\* handshake has reached the client and the read of its response fails, or
\* the write of the response to the backend, whose socket is dead then.
HandshakeFail(s) ==
    /\ ~crashed
    /\ sess[s].pc = "handshake"
    /\ LET c == sess[s].conn IN
       \E at \in {"read backend", "write client", "read client", "write backend"} :
          /\ at # "read backend" => HandshakeWaiting(c)
          /\ ps' = IF at = "read backend" THEN ps
                   ELSE [ps EXCEPT !.greeted = @ \cup {c}]
          /\ clientOut' = IF at \in {"read client", "write backend"}
                          THEN [clientOut EXCEPT ![s] = Append(@, "HANDSHAKE")]
                          ELSE clientOut
          /\ conn' = IF at \in {"read backend", "write backend"}
                     THEN DropConn(conn, c) ELSE conn
    /\ sess' = [sess EXCEPT ![s].pc = "release"]
    /\ UNCHANGED <<now, cb, callers, cbHist, connections, chanClosed,
                   closed, connCounter, reaper, closer, crashed, relInTx, rw, store, bf>>

NextReuse ==
    \/ \E s \in Sessions : Accept(s)
    \/ \E s \in Sessions : AcquireCheckClosed(s)
    \/ \E s \in Sessions : AcquireSelect(s)
    \/ \E s \in Sessions : CreateBefore(s)
    \/ \E s \in Sessions : CreateDial(s)
    \/ \E s \in Sessions : CreateCount(s)
    \/ \E s \in Sessions : HandshakeRelay(s)
    \/ \E s \in Sessions : HandshakeFail(s)
    \/ \E s \in Sessions : AuthStep(s)
    \/ \E s \in Sessions : Query(s)
    \/ \E s \in Sessions : Quit(s)
    \/ \E s \in Sessions : ReleaseCheckClosed(s)
    \/ \E s \in Sessions : ReleaseReturn(s)

\* every goroutine of a session runs on, and the peers answer: a packet that
\* is waiting is read, the auth loop gets its answers, and Acquire and Release
\* run to their end. Sockets dropped by a peer (HandshakeFail) are possible
\* and not promised.
SpecReuse ==
    /\ InitReuse
    /\ [][NextReuse]_vars
    /\ \A s \in Sessions : WF_vars(AcquireCheckClosed(s))
    /\ \A s \in Sessions : WF_vars(AcquireSelect(s))
    /\ \A s \in Sessions : WF_vars(CreateBefore(s))
    /\ \A s \in Sessions : WF_vars(CreateDial(s))
    /\ \A s \in Sessions : WF_vars(CreateCount(s))
    /\ \A s \in Sessions : WF_vars(HandshakeRelay(s))
    /\ \A s \in Sessions : WF_vars(AuthStep(s))
    /\ \A s \in Sessions : WF_vars(ReleaseCheckClosed(s))
    /\ \A s \in Sessions : WF_vars(ReleaseReturn(s))

\* session s was handed a connection another session released to the queue
ReusedInHandshake(s) ==
    sess[s].pc = "handshake" /\ ~HandshakeWaiting(sess[s].conn)

\* C36: a session handed a reused connection leaves the handshake step and
\* becomes ready or closed
C36_ReusedLeavesHandshake ==
    \A s \in Sessions : ReusedInHandshake(s) ~> (sess[s].pc \in {"ready", "done"})


\* for comparison: a session on a freshly dialed connection does get there
FreshLeavesHandshake ==
    \A s \in Sessions :
       (sess[s].pc = "handshake" /\ HandshakeWaiting(sess[s].conn))
           ~> (sess[s].pc \in {"ready", "done"})


\* ======================= transaction tracking =============================
MaxTxQueries == 3

\* handleQuery, "Track transaction state": the session's flag and the flag of
\* its backend connection after a COM_QUERY with this text
trackTransaction(p, query) ==
    [p EXCEPT !.inTx = txAfter(@, query), !.connInTx = txAfter(@, query)]

\* the statements a client sends, in upper case: the four transaction-control
\* statements and texts that merely resemble them
TxStatements ==
    {TextBegin, TextStartTransaction, TextCommit, TextRollback,
     TextBegin \o <<";">>,
     TextBegin \o <<" ", "W", "O", "R", "K">>,
     <<"S", "T", "A", "R", "T", " ", " ", "T", "R", "A", "N", "S", "A", "C", "T", "I", "O", "N">>,
     TextCommit \o <<"T", "E", "D">>,
     TextSelect}
Capitalised(q) == [i \in 1..Len(q) |-> IF i = 1 THEN q[i] ELSE LowerOf(q[i])]
TxPads == {<<>>, <<" ">>, <<"\n", "\t">>}
\* texts with white space and letters outside ASCII: other white space around
\* a statement, the dotless i and the long s for i and s, the Kelvin sign for
\* K, and a zero-width space, which is no white space
TxUnicodeTexts ==
    {<<"\f">> \o TextBegin, TextBegin \o <<"U+000B">>,
     <<"U+0085">> \o TextCommit, <<"U+00A0">> \o TextRollback,
     <<"U+2003">> \o Lowered(TextBegin) \o <<"U+3000">>,
     DotlessI(Lowered(TextBegin)), DotlessI(Lowered(TextCommit)),
     LongS(Lowered(TextStartTransaction)),
     DotlessI(LongS(Lowered(TextStartTransaction))),
     <<"R", "O", "L", "L", "B", "A", "C", "U+212A">>,
     <<"U+200B">> \o TextBegin,
     <<"U+00E9">> \o TextCommit}
\* every statement in three spellings, with and without white space around it
TxTexts ==
    {pre \o w \o post :
        pre \in TxPads, post \in TxPads,
        w \in UNION {{q, Lowered(q), Capitalised(q)} : q \in TxStatements}}
    \cup TxUnicodeTexts

\* Handle after the auth loop: a session in its command loop on a connection
\* that Acquire handed over with its flag clear (NewBackendConn, Reset)
InitTx ==
    /\ cb = NewCircuitBreaker(DefaultCircuitBreakerConfig, 0)
    /\ InitBase
    /\ rw = IdleRewriter
    /\ store = IdleStore
    /\ bf = IdleWorker
    /\ ps = [pc |-> "tx", inTx |-> FALSE, connInTx |-> FALSE, queries |-> 0,
             query |-> <<>>, lastControl |-> "none"]

\* simple case folding, under which a comparison that ignores case is made:
\* upper and lower case of a letter fold together, the Kelvin sign with K and
\* the long s with S; the dotless i folds to itself
FoldOf(ch) ==
    IF ch = "U+212A" THEN "k"
    ELSE IF ch = "U+017F" THEN "s"
    ELSE IF ch = "U+00C9" THEN "U+00E9"
    ELSE LowerOf(ch)
\* the two letters are the same but for their case
SameLetter(a, b) == FoldOf(a) = FoldOf(b)
\* query is the word with white space before and after it, in any case
IsStatement(query, word) ==
    \E i \in 1..(Len(query) + 1) :
       /\ i + Len(word) - 1 <= Len(query)
       /\ \A k \in 1..Len(query) :
             IF k < i \/ k >= i + Len(word)
             THEN query[k] \in WhiteSpace
             ELSE SameLetter(query[k], word[k - i + 1])
\* the transaction-control statement a text is: one that begins a
\* transaction, one that ends it, or none
ControlOf(query) ==
    IF IsStatement(query, TextBegin) \/ IsStatement(query, TextStartTransaction)
    THEN "begin"
    ELSE IF IsStatement(query, TextCommit) \/ IsStatement(query, TextRollback)
    THEN "end"
    ELSE "none"

\* handleCommands, case COM_QUERY: handleQuery tracks the transaction state
\* before it parses and forwards the query
QueryCommand ==
    /\ ps.pc = "tx"
    /\ ps.queries < MaxTxQueries
    /\ \E query \in TxTexts :
          ps' = [trackTransaction(ps, query) EXCEPT
                    !.queries = @ + 1,
                    !.query = query,
                    !.lastControl = IF ControlOf(query) = "none" THEN @
                                    ELSE ControlOf(query)]
    /\ UNCHANGED <<now, cb, callers, cbHist, poolVars, rw, store, bf>>

\* handleCommands, COM_QUIT or a failed read or forward: the command loop ends
QuitCommand ==
    /\ ps.pc = "tx"
    /\ ps' = [ps EXCEPT !.pc = "tx_done"]
    /\ UNCHANGED <<now, cb, callers, cbHist, poolVars, rw, store, bf>>

NextTx ==
    \/ QueryCommand
    \/ QuitCommand

SpecTx == InitTx /\ [][NextTx]_vars

\* C40: after any sequence of COM_QUERY commands the session's flag equals
\* its connection's flag, and both are set exactly when the last
\* transaction-control statement seen (compared without regard to case, white
\* space trimmed) was BEGIN or START TRANSACTION
C40_TxFlagsFollowControl ==
    ps.pc \in {"tx", "tx_done"} =>
       /\ ps.inTx = ps.connInTx
       /\ ps.inTx <=> ps.lastControl = "begin"
\* the two flags by themselves are always equal
TxFlagsPaired == ps.pc \in {"tx", "tx_done"} => ps.inTx = ps.connInTx


\* ======================= closing the configuration store ==================
\* RedisStore.Close, statement by statement: close(s.closeCh), s.pubsub.Close()
\* (skipped when s.pubsub is nil; on its error Close returns at once),
\* close(s.reloadCh), s.client.Close(). It does not wait for the watch loops.
CloseNext(st) ==
    IF st.close = "open" THEN {"closeCh"}
    ELSE IF st.close = "closeCh"
    THEN IF st.pubsub = 0 THEN {"pubsub"} ELSE {"pubsub", "failed"}
    ELSE IF st.close = "pubsub" THEN {"reloadCh"}
    ELSE IF st.close = "reloadCh" THEN {"returned"}
    ELSE {}

\* s.pubsub.Close() closes the subscription stored last, and no other
StoreClose ==
    /\ store.pc = "watch"
    /\ \E next \in CloseNext(store) :
          store' = IF store.close = "closeCh" /\ store.pubsub # 0
                   THEN [store EXCEPT !.close = next,
                                      !.subs[store.pubsub].st = "closed"]
                   ELSE [store EXCEPT !.close = next]
    /\ UNCHANGED <<now, cb, callers, cbHist, poolVars, rw, ps, bf>>

\* the saves succeed here: what is saved plays no part in closing
NextWatchClose ==
    \/ \E w \in Watchers : Subscribe(w)
    \/ \E w \in Watchers : StorePubsub(w)
    \/ \E w \in Watchers : Resubscribe(w)
    \/ \E w \in Watchers : ReceiveCall(w)
    \/ \E w \in Watchers : SubscribeReceive(w)
    \/ \E w \in Watchers : watchLoopStart(w)
    \/ PutConfig(BaseBody, "saved")
    \/ PublishReload
    \/ \E w \in Watchers : watchLoopLoad(w)
    \/ \E w \in Watchers : watchLoopSend(w)
    \/ \E w \in Watchers : Receive(w)
    \/ StoreClose
    \/ \E w \in Watchers : watchLoopStop(w)

SpecWatchClose == InitWatch /\ [][NextWatchClose]_vars

\* C38: the watch loop never sends on the closed reload stream, whatever
\* Close does while a reload notification is being processed
C38_NoSendOnClosedStream == store.pc # "panicked"


\* ======================= stopping a job ===================================
\* The job of SpecControl with the scheduling the runtime gives it: the
\* goroutine in Start runs while it can, a send meets a receive that is
\* ready for it, and a select whose context is done takes that case unless it
\* takes another. The callers of Pause, Resume, Stop and cancel owe no
\* further call.
SpecStop ==
    /\ InitWorker(BfFreshTables, {DefaultRetryAttempts}, FALSE)
    /\ [][NextControl]_vars
    /\ WF_vars(WorkerStep(1))
    /\ WF_vars(ReceiveDone(1))
    /\ \A c \in Controllers : WF_vars(ReceiveStop(1, c))
    /\ \A c \in Controllers : WF_vars(ReceivePause(1, c))
    /\ \A c \in Controllers : WF_vars(ReceiveResume(1, c))

\* controller c is inside Stop, at its send on stopCh
InStop(c) == bf.pc = "backfill" /\ bf.ctl[c].pc = "send_stop"
\* the Stop call of c has returned
StopReturned(c) == bf.ctl[c].pc = "returned" /\ bf.ctl[c].op = "Stop"

\* the job's context is done, or a Stop is at its send
StopRequested == bf.ctx = "done" \/ StopSenders # {}

\* C34: every call to Stop returns; once a Stop is under way or the job's
\* context is done, a Start that has not returned does return, wherever the
\* loop is (between batches, waiting for Resume, at its end), and it starts
\* no further batch before it does
C34_StopTakesEffect ==
    /\ \A c \in Controllers : InStop(c) ~> StopReturned(c)
    /\ (bf.pc = "backfill" /\ ActiveStart(1) /\ StopRequested) ~> (bf.st[1].pc = "returned")
    /\ [][(bf.pc = "backfill" /\ StopRequested) => ~Selected(1)]_vars
\* a Stop that found the job running and is left at its send after Start has
\* returned: nothing receives from stopCh any more
C34_StopStranded ==
    \E c \in Controllers : InStop(c) /\ bf.st[1].pc = "returned" /\ ~bf.running
\* the context is done while the loop waits for a Resume that nobody owes:
\* <-w.resumeCh looks at neither ctx.Done() nor stopCh
C34_CancelUnheard ==
    bf.pc = "backfill" /\ bf.ctx = "done" /\ bf.st[1].pc = "wait_resume" /\ ResumeSenders = {}


\* ======================= the pool's locks =================================
\* The operations of the pool as the sequences of lock operations, channel
\* operations and I/O they perform, one sequence for each path through the
\* code. mu is BackendPool.mu, cb is CircuitBreaker.mu.
NumThreads == 2
Threads == 1..NumThreads

\* circuitBreaker.Call: beforeRequest turns the call away
CallRejected == <<"cb.Lock", "cb.Unlock">>
\* circuitBreaker.Call: beforeRequest, fn (the dial), afterRequest
CallDial == <<"cb.Lock", "cb.Unlock", "dial", "cb.Lock", "cb.Unlock">>
\* createConnection: Call, and after a successful dial the connection counter
CreateConnectionOk == CallDial \o <<"mu.Lock", "mu.Unlock">>
\* Acquire up to its select: the closed check
AcquireHead == <<"mu.Lock", "mu.Unlock">>

PoolPaths ==
    [AcquireClosed |-> AcquireHead,
     AcquireReused |-> AcquireHead \o <<"chan.recv", "io">>,
     AcquireEvicts |-> AcquireHead \o <<"chan.recv", "io", "io">> \o CreateConnectionOk,
     AcquireDials |-> AcquireHead \o <<"chan.recv">> \o CreateConnectionOk,
     AcquireDialFails |-> AcquireHead \o <<"chan.recv">> \o CallDial,
     AcquireRejected |-> AcquireHead \o <<"chan.recv">> \o CallRejected,
     ReleaseCloses |-> <<"mu.Lock", "mu.Unlock", "io">>,
     ReleaseSends |-> <<"mu.Lock", "mu.Unlock", "chan.send">>,
     ReleaseFull |-> <<"mu.Lock", "mu.Unlock", "chan.send", "io">>,
     Stats |-> <<"mu.Lock", "cb.RLock", "cb.RUnlock", "mu.Unlock">>,
     CloseAgain |-> <<"mu.Lock", "mu.Unlock">>,
     CloseFirst |-> <<"mu.Lock", "mu.Unlock", "chan.close", "io", "wg.Wait">>]

IdleThread == [path |-> <<>>, at |-> 0, doing |-> "idle"]

InitLocks ==
    /\ cb = NewCircuitBreaker(DefaultCircuitBreakerConfig, 0)
    /\ InitBase
    /\ rw = IdleRewriter
    /\ store = IdleStore
    /\ bf = IdleWorker
    /\ ps = [pc |-> "locks", mu |-> 0, cbw |-> 0, cbr |-> {},
             th |-> [t \in Threads |-> IdleThread]]

HoldsMu(t) == ps.mu = t
HoldsCb(t) == ps.cbw = t \/ t \in ps.cbr

\* may thread t perform this operation now: Lock waits for the mutex to be
\* free, RLock for the writer to be gone
CanDo(p, t, ins) ==
    IF ins = "mu.Lock" THEN p.mu = 0
    ELSE IF ins = "cb.Lock" THEN p.cbw = 0 /\ p.cbr = {}
    ELSE IF ins = "cb.RLock" THEN p.cbw = 0
    ELSE TRUE

\* the mutexes after thread t performed the operation
LocksAfter(p, t, ins) ==
    IF ins = "mu.Lock" THEN [p EXCEPT !.mu = t]
    ELSE IF ins = "mu.Unlock" THEN [p EXCEPT !.mu = 0]
    ELSE IF ins = "cb.Lock" THEN [p EXCEPT !.cbw = t]
    ELSE IF ins = "cb.Unlock" THEN [p EXCEPT !.cbw = 0]
    ELSE IF ins = "cb.RLock" THEN [p EXCEPT !.cbr = @ \cup {t}]
    ELSE IF ins = "cb.RUnlock" THEN [p EXCEPT !.cbr = @ \ {t}]
    ELSE p

\* a goroutine calls an operation of the pool
BeginOp(t) ==
    /\ ps.pc = "locks"
    /\ ps.th[t].doing = "idle"
    /\ \E name \in DOMAIN PoolPaths :
          ps' = [ps EXCEPT !.th[t] = [path |-> PoolPaths[name], at |-> 1, doing |-> "called"]]
    /\ UNCHANGED <<now, cb, callers, cbHist, poolVars, rw, store, bf>>

\* the goroutine performs the next operation of its path, or returns
LockStep(t) ==
    /\ ps.pc = "locks"
    /\ ps.th[t].doing # "idle"
    /\ IF ps.th[t].at > Len(ps.th[t].path)
       THEN ps' = [ps EXCEPT !.th[t] = IdleThread]
       ELSE LET ins == ps.th[t].path[ps.th[t].at] IN
            /\ CanDo(ps, t, ins)
            /\ ps' = [LocksAfter(ps, t, ins) EXCEPT !.th[t].at = @ + 1,
                                                    !.th[t].doing = ins]
    /\ UNCHANGED <<now, cb, callers, cbHist, poolVars, rw, store, bf>>

NextLocks ==
    \/ \E t \in Threads : BeginOp(t)
    \/ \E t \in Threads : LockStep(t)

SpecLocks == InitLocks /\ [][NextLocks]_vars

\* C39: in the operations of the pool no goroutine holds the pool mutex and
\* the breaker mutex together, and none holds either while it dials or does
\* socket I/O
C39_LocksNeverNested ==
    ps.pc = "locks" =>
       \A t \in Threads :
          /\ ~(HoldsMu(t) /\ HoldsCb(t))
          /\ ps.th[t].doing \in {"dial", "io"} => ~HoldsMu(t) /\ ~HoldsCb(t)
\* the second half alone: no mutex is held while dialing or doing socket I/O
NoLockDuringIO ==
    ps.pc = "locks" =>
       \A t \in Threads :
          ps.th[t].doing \in {"dial", "io"} => ~HoldsMu(t) /\ ~HoldsCb(t)

====
